---- MODULE Spec2Model ----
(***************************************************************************)
(* Ghost Agency: the simulation core (agents, missions, agency economy).   *)
(* Agents are records kept in the roster sequence; equipment instances are *)
(* numbered 1..Len(items) and items[e] is the catalog entry an instance    *)
(* was created from.  Random draws (mission roll, breakdown coin, region   *)
(* modifiers) are inputs of the actions.                                   *)
(***************************************************************************)
EXTENDS Integers, Sequences, FiniteSets, TLC

\* ------------------------------------------------------------------ config
MAX_AGENTS == 8
MAX_AGENTS_PER_MISSION == 4
DAILY_SALARY_PER_AGENT == 10
STARTING_FUNDS == 5000
STARTING_REPUTATION == 50
BASE_MISSION_REWARD == 1000
MIN_STAT == 1
MAX_STAT == 10
DEFAULT_ROOM_CAPACITY == 4
DEFAULT_MAINTENANCE_COST == 50
MAX_ROOM_LEVEL == 3
MAX_ROOMS == 5
ROOM_CAPACITY_INCREASE == 2
MAINTENANCE_COST_INCREASE == 25
UPGRADE_MAINTENANCE_COST == 10
RESEARCH_PROJECT_COST == 100

STAT_NAMES == {"will", "tech", "combat", "fear_resist", "charisma"}
DIFFICULTY_VALUES == {1, 2, 3, 4}
LOCATIONS ==
    <<"Coastal Ruins", "Abandoned Asylum", "Foggy Woods",
      "Haunted Suburbs", "Ancient Graveyard">>
EquipmentType == {"weapon", "armor", "tool", "trinket"}
GHOST_TYPES == <<"Poltergeist", "Specter", "Wraith", "Phantom", "Shade">>
RESEARCH_PROJECTS ==
    <<"Basic Equipment", "Advanced Sensors", "Ghost Containment",
      "Psychic Training", "Advanced Containment">>

\* Agency.__post_init__: the default utilities, in dictionary order.
Utilities ==
    << [name |-> "Electricity", cost |-> 50], [name |-> "Water", cost |-> 30],
       [name |-> "Internet", cost |-> 40], [name |-> "Maintenance", cost |-> 20] >>

\* The name hire_random_agent gives the n-th agent of the roster.
AgentNames ==
    <<"Agent 1", "Agent 2", "Agent 3", "Agent 4",
      "Agent 5", "Agent 6", "Agent 7", "Agent 8">>

\* ------------------------------------------------------------------ bounds
\* Largest mission log the agency model explores.
MaxLog == 6
\* Largest roster the agency model hires.
MaxRoster == 1
\* How far below zero the agency model follows an agent's stress.
MaxDeficit == 20
\* Largest roster drawn for one mission resolution.
MaxTeam == 5
\* Equipment instances created in the equipment model.
MaxItems == 3
\* Regions of the map the world model follows (a prefix of LOCATIONS).
NumRegions == 2
\* Largest roster of the daily-tick model.
MaxCrew == 2
\* Daily ticks the daily-tick model follows.
MaxTicks == 5
\* Research projects the research model works on (a prefix of RESEARCH_PROJECTS).
NumProjects == 2
\* Daily ticks the research model follows.
MaxResearchDays == 2
\* Highest level the career model follows an agent to.
MaxLevel == 4
\* Largest sum of class bonuses the career model lets an agent collect.
MaxBonus == 5
\* Log lines the audit model follows after the start of the game.
MaxAudit == 5
\* Daily ticks the hiring model follows.
MaxHireDays == 2
\* Funds the headquarters model starts with.
MaxPurse == 130
\* Purchases the headquarters model follows.
MaxPurchases == 2
\* Room types the headquarters model draws (a prefix of ROOM_TYPES).
NumRoomTypes == 1
\* Largest number of rooms the room model starts with.
RoomsFollowed == 2
\* Days on which the project model ticks with no project active.
MaxIdleDays == 2
\* Level up to which the mission-career model follows an agent.
VeteranLevel == 3
\* Log lines the funds model follows after the start of the game.
MaxLedger == 6
\* Log lines the no-agent model follows after the hires.
MaxStranded == 3

\* ----------------------------------------------------------------- helpers
Min(a, b) == IF a < b THEN a ELSE b
Max(a, b) == IF a > b THEN a ELSE b

RECURSIVE SumOver(_, _)
SumOver(f, S) ==
    IF S = {} THEN 0
    ELSE LET x == CHOOSE y \in S : TRUE IN f[x] + SumOver(f, S \ {x})

\* sum(d.values()) of a dictionary
SumValues(f) == SumOver(f, DOMAIN f)

RECURSIVE SumSeq(_)
SumSeq(s) == IF s = <<>> THEN 0 ELSE Head(s) + SumSeq(Tail(s))

\* a slice that keeps the back of the list: s[-n:]
Take_Back(s, n) == SubSeq(s, Len(s) - Min(n, Len(s)) + 1, Len(s))

\* s[:n]
Take(s, n) == SubSeq(s, 1, Min(n, Len(s)))

\* ------------------------------------------------------------------- state
VARIABLES
    roster,       \* Agency.roster: sequence of agent records
    items,        \* items[e]: catalog entry of equipment instance e
    funds,        \* Agency.funds
    reputation,   \* Agency.reputation
    mission_log,  \* Agency.mission_log
    rooms,        \* Agency.rooms
    research,     \* Agency.research
    regions,      \* WorldMap.regions
    day,          \* Game.day
    last          \* the last operation: its arguments, result and what it observed

vars == <<roster, items, funds, reputation, mission_log, rooms, research,
          regions, day, last>>

\* ------------------------------------------------------------- equipment
\* The catalog entries: Equipment's three constructors.
Catalog ==
    [ghost_gun |->
        [name |-> "Ghost Gun", type |-> "weapon",
         stats |-> [combat |-> 2, tech |-> 1], cost |-> 1000, level_requirement |-> 1],
     ecto_armor |->
        [name |-> "Ecto Armor", type |-> "armor",
         stats |-> [will |-> 2, fear_resist |-> 1], cost |-> 1500, level_requirement |-> 2],
     ghost_scanner |->
        [name |-> "Ghost Scanner", type |-> "tool",
         stats |-> [tech |-> 2], cost |-> 800, level_requirement |-> 1]]

ItemKinds == DOMAIN Catalog

\* Equipment.__eq__ (dataclass): two instances are equal when all fields are.
EquipEq(e1, e2) == Catalog[items[e1]] = Catalog[items[e2]]

\* No item in a slot.
NoItem == 0

\* ------------------------------------------------------------------ agents
\* injury_days_left = None
NoDays == -1

\* Agent(name) after __post_init__: every stat is 1, every slot empty.
NewAgent(name) ==
    [name |-> name, level |-> 1, experience |-> 0, money |-> 0,
     status |-> "available",
     stats |-> [s \in STAT_NAMES |-> 1],
     inventory |-> <<>>,
     equipped |-> [t \in EquipmentType |-> NoItem],
     agent_class |-> "",
     stress |-> 0, injury_days_left |-> NoDays]

\* Agent.random(name): the drawn stats are passed to the constructor, whose
\* __post_init__ overwrites them.
AgentRandom(name, drawn) == NewAgent(name)

\* Agent(name=name, stats=stats): __post_init__ overwrites the stats passed in.
AgentWithStats(name, stats) == NewAgent(name)

\* Agent.level_up
LevelUp(a) ==
    [a EXCEPT !.level = @ + 1, !.stats = [s \in STAT_NAMES |-> a.stats[s] + 1]]

GetNextLevelXp(a) == a.level * 100

\* gain_experience that calls level_up again while the experience allows it
RECURSIVE GainExperience_Repeat(_, _)
GainExperience_Repeat(a, amount) ==
    LET gained == [a EXCEPT !.experience = @ + amount]
    IN  IF gained.experience >= GetNextLevelXp(gained)
        THEN GainExperience_Repeat(LevelUp(gained), 0)
        ELSE gained

\* gain_experience that starts the counter again on a level-up
GainExperience_Reset(a, amount) ==
    LET b == [a EXCEPT !.experience = @ + amount]
    IN  IF b.experience >= b.level * 100
        THEN [a EXCEPT !.level = @ + 1, !.experience = b.experience - b.level * 100,
                       !.stats = [s \in STAT_NAMES |-> a.stats[s] + 1]]
        ELSE b

\* a gain that levels up only once the threshold is passed
GainExperience_Late(a, amount) ==
    LET b == [a EXCEPT !.experience = @ + amount]
    IN  IF b.experience > GetNextLevelXp(b) THEN LevelUp(b) ELSE b

\* Agent.gain_experience
GainExperience(a, amount) ==
    LET b == [a EXCEPT !.experience = @ + amount]
    IN  IF b.experience >= GetNextLevelXp(b) THEN LevelUp(b) ELSE b

\* Agent.get_level_threshold
GetLevelThreshold(a) == a.level * 100

\* Agent.add_experience: its return value
AddExperienceRet(a, amount) ==
    LET b == [a EXCEPT !.experience = @ + amount]
    IN  b.experience >= GetLevelThreshold(b)

\* Agent.add_experience: the agent after the call
AddExperience(a, amount) ==
    LET b == [a EXCEPT !.experience = @ + amount]
    IN  IF b.experience >= GetLevelThreshold(b) THEN LevelUp(b) ELSE b

\* AgentClass: the values of the enumeration
AgentClass ==
    {"Ghost Hunter", "Spirit Warrior", "Ecto Slayer", "Phantom Fighter",
     "Tech Exorcist", "Ghost Engineer", "Spirit Analyst", "Ecto Technician",
     "Spirit Healer", "Ghost Medic", "Ecto Support", "Phantom Mentor",
     "Ghost Researcher", "Spirit Scientist", "Ecto Archivist", "Phantom Theorist",
     "Ghost Operative", "Spirit Infiltrator", "Ecto Specialist", "Phantom Agent"}

\* the classes CLASS_SPECIALIZATIONS has an entry for
SpecializedClasses ==
    {"Ghost Hunter", "Spirit Warrior", "Tech Exorcist", "Spirit Healer",
     "Ghost Researcher", "Ghost Operative"}

\* CLASS_SPECIALIZATIONS[agent_class].stat_bonus
StatBonus(agent_class) ==
    CASE agent_class = "Ghost Hunter" -> [combat |-> 3, will |-> 2]
      [] agent_class = "Spirit Warrior" -> [combat |-> 2, will |-> 3]
      [] agent_class = "Tech Exorcist" -> [tech |-> 3, will |-> 2]
      [] agent_class = "Spirit Healer" -> [will |-> 3, tech |-> 1]
      [] agent_class = "Ghost Researcher" -> [tech |-> 3, will |-> 1]
      [] agent_class = "Ghost Operative" -> [combat |-> 2, tech |-> 2, will |-> 1]

\* get_available_classes(agent_level)
GetAvailableClasses(agent_level) == IF agent_level < 3 THEN {} ELSE AgentClass

\* Agent.assign_class: its return value
AssignClassRet(a, agent_class) == a.level >= 3 /\ agent_class \in SpecializedClasses

\* the stats after the class bonuses are applied
WithBonus(stats, bonus) ==
    [s \in STAT_NAMES |-> stats[s] + (IF s \in DOMAIN bonus THEN bonus[s] ELSE 0)]

\* an assignment with no level requirement
AssignClassOf_AnyLevel(a, agent_class) ==
    IF agent_class \in SpecializedClasses
    THEN [a EXCEPT !.agent_class = agent_class,
                   !.stats = WithBonus(a.stats, StatBonus(agent_class))]
    ELSE a

\* Agent.assign_class: the agent after the call
AssignClassOf(a, agent_class) ==
    IF AssignClassRet(a, agent_class)
    THEN [a EXCEPT !.agent_class = agent_class,
                   !.stats = WithBonus(a.stats, StatBonus(agent_class))]
    ELSE a

\* a breakdown that forgets to reset the stress of a resting agent
HandleStressBreakdown_KeepStress(a, coin) ==
    IF coin THEN [a EXCEPT !.status = "deceased"]
    ELSE [a EXCEPT !.status = "resting"]

\* Agent._handle_stress_breakdown; coin is random.random() < 0.5
HandleStressBreakdown(a, coin) ==
    IF coin THEN [a EXCEPT !.status = "deceased"]
    ELSE [a EXCEPT !.status = "resting", !.stress = 80]

\* Agent.apply_stress
ApplyStressTo(a, amount, coin) ==
    LET b == [a EXCEPT !.stress = Min(100, a.stress + amount)]
    IN  IF b.stress >= 100 THEN HandleStressBreakdown(b, coin) ELSE b

\* a recovery with no floor at 0
RecoverStressOf_NoFloor(a, amount) ==
    LET b == [a EXCEPT !.stress = a.stress - amount]
    IN  IF b.stress = 0 /\ b.status = "resting"
        THEN [b EXCEPT !.status = "available"] ELSE b

\* Agent.recover_stress
RecoverStressOf(a, amount) ==
    LET b == [a EXCEPT !.stress = Max(0, a.stress - amount)]
    IN  IF b.stress = 0 /\ b.status = "resting"
        THEN [b EXCEPT !.status = "available"] ELSE b

\* Agent.heal_injury
HealInjuryOf(a) ==
    IF a.injury_days_left # NoDays
    THEN LET b == [a EXCEPT !.injury_days_left = @ - 1]
         IN  IF b.injury_days_left <= 0
             THEN [b EXCEPT !.injury_days_left = NoDays, !.status = "available"]
             ELSE b
    ELSE a

\* sum(equipment.stats.values()) over the equipped slots
RECURSIVE EquippedStatSum(_, _)
EquippedStatSum(a, slots) ==
    IF slots = {} THEN 0
    ELSE LET t == CHOOSE x \in slots : TRUE
             e == a.equipped[t]
         IN  (IF e # NoItem THEN SumValues(Catalog[items[e]].stats) ELSE 0)
             + EquippedStatSum(a, slots \ {t})

\* total stats that also count the items lying in the inventory
GetTotalStats_WithInventory(a) ==
    SumValues(a.stats) + EquippedStatSum(a, EquipmentType)
        + SumSeq([k \in 1..Len(a.inventory) |-> SumValues(Catalog[items[a.inventory[k]]].stats)])

\* Agent.get_total_stats
GetTotalStats(a) == SumValues(a.stats) + EquippedStatSum(a, EquipmentType)

\* the slots in the order self.equipped.values() yields them
SlotOrder == <<"weapon", "armor", "tool", "trinket">>

\* Equipment.apply_stats: one entry per stat of the equipment
ApplyStats(equipment_stats, agent_stats) ==
    [st \in DOMAIN equipment_stats |->
        (IF st \in DOMAIN agent_stats THEN agent_stats[st] ELSE 0) + equipment_stats[st]]

\* get_equipped_stats, the loop from slot k on
RECURSIVE EquippedStatsFrom(_, _, _)
EquippedStatsFrom(a, total_stats, k) ==
    IF k > Len(SlotOrder) THEN total_stats
    ELSE LET e == a.equipped[SlotOrder[k]]
         IN  EquippedStatsFrom(a,
                               IF e # NoItem
                               THEN ApplyStats(Catalog[items[e]].stats, total_stats)
                               ELSE total_stats,
                               k + 1)

\* Agent.get_equipped_stats
GetEquippedStats(a) == EquippedStatsFrom(a, a.stats, 1)

\* equipment in self.inventory (list membership compares with ==)
InInventory(a, e) == \E k \in 1..Len(a.inventory) : EquipEq(a.inventory[k], e)

\* self.inventory.remove(equipment): drops the first element equal to it
RemoveFirst(inv, e) ==
    LET k == CHOOSE j \in 1..Len(inv) :
                 /\ EquipEq(inv[j], e)
                 /\ \A h \in 1..(j - 1) : ~EquipEq(inv[h], e)
    IN  SubSeq(inv, 1, k - 1) \o SubSeq(inv, k + 1, Len(inv))

\* Agent.add_to_inventory
AddToInventory(a, e) == [a EXCEPT !.inventory = Append(@, e)]

\* Agent.remove_from_inventory
RemoveFromInventoryOf(a, e) ==
    IF InInventory(a, e) THEN [a EXCEPT !.inventory = RemoveFirst(@, e)] ELSE a

\* Agent.equip_item: the agent after the call
EquipItemOf(a, e) ==
    IF InInventory(a, e)
    THEN LET t == Catalog[items[e]].type
             current == a.equipped[t]
             inv == IF current # NoItem THEN Append(a.inventory, current)
                    ELSE a.inventory
         IN  [a EXCEPT !.equipped[t] = e, !.inventory = RemoveFirst(inv, e)]
    ELSE a

\* Agent.unequip_item: the agent after the call
UnequipItemOf(a, t) ==
    IF a.equipped[t] # NoItem
    THEN [a EXCEPT !.inventory = Append(@, a.equipped[t]), !.equipped[t] = NoItem]
    ELSE a

\* Agent.add_money
AddMoney(a, amount) == [a EXCEPT !.money = @ + amount]

\* Agent.spend_money succeeds
CanSpend(a, amount) == a.money >= amount

\* ------------------------------------------------------------------ agency
LogEntry(kind, d, subject, amount) ==
    [kind |-> kind, day |-> d, subject |-> subject, amount |-> amount]

\* update_reputation without the floor at 0
ClampReputation_NoFloor(rep, amount) == Min(100, rep + amount)

\* Agency.update_reputation: the new reputation
ClampReputation(rep, amount) == Max(0, Min(100, rep + amount))

\* Agency.get_available_agents: roster positions, in roster order
GetAvailableAgents ==
    SelectSeq([i \in 1..Len(roster) |-> i],
              LAMBDA i : roster[i].status = "available")

\* ----------------------------------------------------------------- mission
\* a reward whose multiplier is cut to a whole number before the product
GetReward_WholeMultiplier(difficulty) == BASE_MISSION_REWARD * ((10 + difficulty) \div 10)

\* Ghost.get_reward: int(1000 * (1.0 + difficulty * 0.1)); for difficulty
\* 0..11 the floating-point product is the exact integer computed here
GetReward(difficulty) == (BASE_MISSION_REWARD * (10 + difficulty)) \div 10

\* a regeneration that makes the next mission one step harder
GenerateMission_Harder(location, difficulty) ==
    [location |-> location, difficulty |-> difficulty + 1,
     reward |-> GetReward(difficulty + 1), status |-> "available",
     assigned_agents |-> <<>>]

\* Mission.generate: a fresh mission
GenerateMission(location, difficulty) ==
    [location |-> location, difficulty |-> difficulty,
     reward |-> GetReward(difficulty), status |-> "available",
     assigned_agents |-> <<>>]

\* Ghost.random(difficulty), with the type random.choice draws; the name
\* suffix, abilities and weaknesses play no part in the simulation
GhostRandom(difficulty, ghost_type) == [ghost_type |-> ghost_type, difficulty |-> difficulty]

\* Mission.generate with the ghost it draws kept in the mission
GenerateMissionWithGhost(location, difficulty, ghost_type) ==
    LET ghost == GhostRandom(difficulty, ghost_type)
    IN  [name |-> "Investigate " \o ghost.ghost_type \o " Activity",
         location |-> location, difficulty |-> difficulty, ghost |-> ghost,
         reward |-> GetReward(ghost.difficulty), status |-> "available",
         assigned_agents |-> <<>>]

\* Mission.assign_agent
AssignAgent(m, name) ==
    IF Len(m.assigned_agents) >= MAX_AGENTS_PER_MISSION THEN m
    ELSE [m EXCEPT !.assigned_agents = Append(@, name)]

\* Mission.remove_agent: its return value
RemoveAgentRet(m, name) == \E k \in 1..Len(m.assigned_agents) : m.assigned_agents[k] = name

\* the list without its first occurrence of name (list.remove)
RECURSIVE WithoutFirst(_, _)
WithoutFirst(names, name) ==
    IF names = <<>> THEN <<>>
    ELSE IF Head(names) = name THEN Tail(names)
    ELSE <<Head(names)>> \o WithoutFirst(Tail(names), name)

\* Mission.remove_agent
RemoveAgent(m, name) ==
    IF RemoveAgentRet(m, name)
    THEN [m EXCEPT !.assigned_agents = WithoutFirst(@, name)]
    ELSE m

\* Mission.start
MissionStart(m) == [m EXCEPT !.status = "in_progress"]

\* Mission.complete
MissionComplete(m, success) ==
    [m EXCEPT !.status = IF success THEN "completed" ELSE "failed"]

RECURSIVE AssignAll(_, _)
AssignAll(m, names) ==
    IF names = <<>> THEN m ELSE AssignAll(AssignAgent(m, Head(names)), Tail(names))

\* Region(name): fear_mult is kept in quarters (4 = 1.0, 5 = 1.25, 6 = 1.5),
\* values for which difficulty * 10 * fear_mult is exact in floating point.
NewRegion(name, fear_q, difficulty) ==
    [name |-> name, fear_q |-> fear_q,
     missions |-> <<GenerateMission(name, difficulty)>>]

FearQuarters == {4, 5, 6}

\* the mission stress without the region's fear multiplier
MissionStress_NoFear(difficulty, fear_q) == difficulty * 10

\* int(mission.difficulty * 10 * region.modifiers['fear_mult'])
MissionStress(difficulty, fear_q) == (difficulty * 10 * fear_q) \div 4

\* success_chance = min(0.95, total_stats / (difficulty * 10)) as the
\* fraction ChanceNum / ChanceDen
ChanceDen(difficulty) == 100 * difficulty
ChanceNum(total_stats, difficulty) == Min(95 * difficulty, 10 * total_stats)

\* the chance as the log prints it ({:.1%}), in tenths of a percent
ChancePerMille(total_stats, difficulty) ==
    (2000 * ChanceNum(total_stats, difficulty) + ChanceDen(difficulty))
        \div (2 * ChanceDen(difficulty))

\* random.random() draws, in hundredths
Rolls == {0, 50, 94, 95}

\* random.random() < success_chance
RollSucceeds(roll, total_stats, difficulty) ==
    roll * ChanceDen(difficulty) < 100 * ChanceNum(total_stats, difficulty)

\* a failure that costs as much reputation as a success earns
ReputationChange_FailureFive(success, difficulty) ==
    IF success THEN difficulty * 5 ELSE -(difficulty * 5)

\* run_mission's argument to update_reputation
ReputationChange(success, difficulty) ==
    IF success THEN difficulty * 5 ELSE -(difficulty * 2)

\* the stress step of run_mission: agent.stress = min(100, agent.stress + int(stress))
StressStep(a, difficulty, fear_q) ==
    [a EXCEPT !.stress = Min(100, a.stress + MissionStress(difficulty, fear_q))]

\* ------------------------------------------------------------------- rooms
\* x in a list
InList(x, list) == \E k \in 1..Len(list) : list[k] = x

\* the room types the headquarters screen draws from
ROOM_TYPES == <<"Training", "Research", "Medical">>

\* Room(f"{room_type} Room", room_type)
NewRoom(room_type) ==
    [name |-> room_type \o " Room", room_type |-> room_type, level |-> 1,
     capacity |-> DEFAULT_ROOM_CAPACITY,
     maintenance_cost |-> DEFAULT_MAINTENANCE_COST, upgrades |-> <<>>]

\* Room.get_total_maintenance_cost
GetTotalMaintenanceCost(room) ==
    room.maintenance_cost + Len(room.upgrades) * UPGRADE_MAINTENANCE_COST

\* Room.upgrade: its return value
UpgradeRet(room) == room.level < MAX_ROOM_LEVEL

\* an upgrade with no level cap
UpgradeOf_NoCap(room) ==
    [room EXCEPT !.level = @ + 1,
                 !.capacity = @ + ROOM_CAPACITY_INCREASE,
                 !.maintenance_cost = @ + MAINTENANCE_COST_INCREASE]

\* Room.upgrade: the room after the call
UpgradeOf(room) ==
    IF UpgradeRet(room)
    THEN [room EXCEPT !.level = @ + 1,
                      !.capacity = @ + ROOM_CAPACITY_INCREASE,
                      !.maintenance_cost = @ + MAINTENANCE_COST_INCREASE]
    ELSE room

\* Room.add_upgrade: its return value
AddUpgradeRet(room, upgrade) == ~InList(upgrade, room.upgrades)

\* an add_upgrade that appends without looking
AddUpgradeOf_Always(room, upgrade) == [room EXCEPT !.upgrades = Append(@, upgrade)]

\* Room.add_upgrade: the room after the call
AddUpgradeOf(room, upgrade) ==
    IF AddUpgradeRet(room, upgrade)
    THEN [room EXCEPT !.upgrades = Append(@, upgrade)]
    ELSE room

\* list.remove(x): the list without its first x
RECURSIVE ListRemove(_, _)
ListRemove(list, x) ==
    IF list = <<>> THEN <<>>
    ELSE IF Head(list) = x THEN Tail(list)
    ELSE <<Head(list)>> \o ListRemove(Tail(list), x)

\* Room.remove_upgrade: its return value
RemoveUpgradeRet(room, upgrade) == InList(upgrade, room.upgrades)

\* Room.remove_upgrade: the room after the call
RemoveUpgradeOf(room, upgrade) ==
    IF RemoveUpgradeRet(room, upgrade)
    THEN [room EXCEPT !.upgrades = ListRemove(@, upgrade)]
    ELSE room

\* ---------------------------------------------------------------- research
NewResearch == [completed_projects |-> <<>>, current_project |-> "", progress |-> 0]

\* Research.start_project: its return value
StartProjectRet(res, project) ==
    ~(InList(project, res.completed_projects) \/ res.current_project # "")

\* a start that only checks for an active project
StartProjectOf_Again(res, project) ==
    IF res.current_project # "" THEN res
    ELSE [res EXCEPT !.current_project = project, !.progress = 0]

\* Research.start_project: the research after the call
StartProjectOf(res, project) ==
    IF StartProjectRet(res, project)
    THEN [res EXCEPT !.current_project = project, !.progress = 0]
    ELSE res

\* Research.get_available_projects
GetAvailableProjects(res) ==
    SelectSeq(RESEARCH_PROJECTS, LAMBDA project : ~InList(project, res.completed_projects))

\* a completion that leaves the project current
CompleteProject_KeepCurrent(res) ==
    IF res.current_project # ""
    THEN [res EXCEPT !.completed_projects = Append(@, res.current_project),
                     !.progress = 0]
    ELSE res

\* Research.complete_project
CompleteProject(res) ==
    IF res.current_project # ""
    THEN [completed_projects |-> Append(res.completed_projects, res.current_project),
          current_project |-> "", progress |-> 0]
    ELSE res

\* Research.advance_project: its return value
AdvanceProjectRet(res, amount) ==
    res.current_project # "" /\ res.progress + amount >= RESEARCH_PROJECT_COST

\* an advance that never completes the project
AdvanceProject_NoComplete(res, amount) ==
    IF res.current_project = "" THEN res
    ELSE [res EXCEPT !.progress = @ + amount]

\* an advance that completes the project only past the cost
AdvanceProject_Strict(res, amount) ==
    IF res.current_project = "" THEN res
    ELSE LET r2 == [res EXCEPT !.progress = @ + amount]
         IN  IF r2.progress > RESEARCH_PROJECT_COST
             THEN [completed_projects |-> Append(r2.completed_projects, r2.current_project),
                   current_project |-> "", progress |-> 0]
             ELSE r2

\* Research.advance_project: the research after the call
AdvanceProject(res, amount) ==
    IF res.current_project = "" THEN res
    ELSE LET r2 == [res EXCEPT !.progress = @ + amount]
         IN  IF r2.progress >= RESEARCH_PROJECT_COST THEN CompleteProject(r2) ELSE r2

\* ------------------------------------------------------------ the actions
\* a hire that refuses one agent short of the limit
HireRandomAgent_Early ==
    /\ IF Len(roster) >= MAX_AGENTS - 1
       THEN /\ UNCHANGED <<roster, mission_log>>
            /\ last' = [op |-> "hire_random_agent", ret |-> FALSE]
       ELSE LET name == AgentNames[Len(roster) + 1]
                agent == AgentRandom(name, [s \in STAT_NAMES |-> MIN_STAT])
            IN  /\ roster' = Append(roster, agent)
                /\ mission_log' =
                       Append(mission_log, LogEntry("hired", 0, name, agent.level))
                /\ last' = [op |-> "hire_random_agent", ret |-> TRUE]
    /\ UNCHANGED <<items, funds, reputation, rooms, research, regions, day>>

\* Agency.hire_random_agent
HireRandomAgent ==
    /\ IF Len(roster) >= MAX_AGENTS
       THEN /\ UNCHANGED <<roster, mission_log>>
            /\ last' = [op |-> "hire_random_agent", ret |-> FALSE]
       ELSE LET name == AgentNames[Len(roster) + 1]
                agent == AgentRandom(name, [s \in STAT_NAMES |-> MIN_STAT])
            IN  /\ roster' = Append(roster, agent)
                /\ mission_log' =
                       Append(mission_log, LogEntry("hired", 0, name, agent.level))
                /\ last' = [op |-> "hire_random_agent", ret |-> TRUE]
    /\ UNCHANGED <<items, funds, reputation, rooms, research, regions, day>>

\* Agency.update_reputation
UpdateReputation(amount) ==
    /\ reputation' = ClampReputation(reputation, amount)
    /\ mission_log' = Append(mission_log, LogEntry("reputation", 0, "", amount))
    /\ last' = [op |-> "update_reputation", amount |-> amount]
    /\ UNCHANGED <<roster, items, funds, rooms, research, regions, day>>

\* a salary payment that writes its line at the head of the log
PaySalaries_Prepend ==
    LET total == Len(roster) * DAILY_SALARY_PER_AGENT
    IN  /\ funds' = funds - total
        /\ mission_log' = <<LogEntry("salaries", 0, "", total)>> \o mission_log
        /\ last' = [op |-> "pay_salaries", total |-> total]
        /\ UNCHANGED <<roster, items, reputation, rooms, research, regions, day>>

\* Agency.pay_salaries
PaySalaries ==
    LET total == Len(roster) * DAILY_SALARY_PER_AGENT
    IN  /\ funds' = funds - total
        /\ mission_log' = Append(mission_log, LogEntry("salaries", 0, "", total))
        /\ last' = [op |-> "pay_salaries", total |-> total]
        /\ UNCHANGED <<roster, items, reputation, rooms, research, regions, day>>

\* Agency.add_funds
AddFunds(amount) ==
    /\ funds' = funds + amount
    /\ mission_log' = Append(mission_log, LogEntry("funds", 0, "", amount))
    /\ last' = [op |-> "add_funds", amount |-> amount]
    /\ UNCHANGED <<roster, items, reputation, rooms, research, regions, day>>

\* Agent.random(name) with the values random.randint draws
AgentRandomCall(name, drawn) ==
    /\ last' = [op |-> "agent_random", drawn |-> drawn, ret |-> AgentRandom(name, drawn)]
    /\ UNCHANGED <<roster, items, funds, reputation, mission_log, rooms, research,
                   regions, day>>

\* Agent(name, stats=stats)
AgentCall(name, stats) ==
    /\ last' = [op |-> "agent", drawn |-> stats, ret |-> AgentWithStats(name, stats)]
    /\ UNCHANGED <<roster, items, funds, reputation, mission_log, rooms, research,
                   regions, day>>

\* Agent.apply_stress on the i-th agent of the roster
ApplyStress(i, amount, coin) ==
    /\ roster' = [roster EXCEPT ![i] = ApplyStressTo(@, amount, coin)]
    /\ last' = [op |-> "apply_stress", agent |-> i, amount |-> amount]
    /\ UNCHANGED <<items, funds, reputation, mission_log, rooms, research, regions, day>>

\* Agent.recover_stress on the i-th agent of the roster
RecoverStress(i, amount) ==
    /\ roster' = [roster EXCEPT ![i] = RecoverStressOf(@, amount)]
    /\ last' = [op |-> "recover_stress", agent |-> i, amount |-> amount]
    /\ UNCHANGED <<items, funds, reputation, mission_log, rooms, research, regions, day>>

\* Agent.gain_experience on the i-th agent of the roster
GainExperienceCall(i, amount) ==
    /\ roster' = [roster EXCEPT ![i] = GainExperience(@, amount)]
    /\ last' = [op |-> "gain_experience", agent |-> i, amount |-> amount]
    /\ UNCHANGED <<items, funds, reputation, mission_log, rooms, research, regions, day>>

\* Agent.add_experience on the i-th agent of the roster
AddExperienceCall(i, amount) ==
    /\ roster' = [roster EXCEPT ![i] = AddExperience(@, amount)]
    /\ last' = [op |-> "add_experience", agent |-> i, amount |-> amount,
                ret |-> AddExperienceRet(roster[i], amount)]
    /\ UNCHANGED <<items, funds, reputation, mission_log, rooms, research, regions, day>>

\* Agent.assign_class on the i-th agent of the roster
AssignClass(i, agent_class) ==
    /\ roster' = [roster EXCEPT ![i] = AssignClassOf(@, agent_class)]
    /\ last' = [op |-> "assign_class", agent |-> i, agent_class |-> agent_class,
                ret |-> AssignClassRet(roster[i], agent_class)]
    /\ UNCHANGED <<items, funds, reputation, mission_log, rooms, research, regions, day>>

\* Agent.heal_injury on the i-th agent of the roster
HealInjury(i) ==
    /\ roster' = [roster EXCEPT ![i] = HealInjuryOf(@)]
    /\ last' = [op |-> "heal_injury", agent |-> i]
    /\ UNCHANGED <<items, funds, reputation, mission_log, rooms, research, regions, day>>

\* run_mission, one assigned agent: status on_mission, then the stress step
Stressed(a, difficulty, fear_q) ==
    StressStep([a EXCEPT !.status = "on_mission"], difficulty, fear_q)

\* run_mission, one assigned agent: the reward step
Rewarded(a, success, difficulty) ==
    IF success THEN GainExperience(a, difficulty * 10) ELSE a

\* a mission end that forgets the status reset
Released_Keep(a) == a

\* run_mission, one assigned agent: the status reset
Released(a) == [a EXCEPT !.status = "available"]

\* run_mission once the outcome is drawn; agents holds the roster positions
\* of the assigned agents
ResolveMission(r, agents, total_stats, success) ==
    LET region == regions[r]
        mission == region.missions[1]
        d == mission.difficulty
        team == {agents[k] : k \in 1..Len(agents)}
        names == [k \in 1..Len(agents) |-> roster[agents[k]].name]
        started == MissionStart(AssignAll(mission, names))
        completed == MissionComplete(started, success)
        repAmount == ReputationChange(success, d)
        rewardLog == IF success
                     THEN <<LogEntry("funds", 0, "", mission.reward),
                            LogEntry("reputation", 0, "", repAmount)>>
                     ELSE <<LogEntry("reputation", 0, "", repAmount)>>
        resultLog == LogEntry(IF success THEN "SUCCESS" ELSE "FAILURE", day,
                              region.name, ChancePerMille(total_stats, d))
    IN  /\ roster' = [i \in 1..Len(roster) |->
                         IF i \in team
                         THEN Released(Rewarded(Stressed(roster[i], d, region.fear_q),
                                                success, d))
                         ELSE roster[i]]
        /\ funds' = IF success THEN funds + mission.reward ELSE funds
        /\ reputation' = ClampReputation(reputation, repAmount)
        /\ mission_log' = mission_log \o rewardLog \o <<resultLog>>
        /\ regions' = [regions EXCEPT ![r].missions = <<GenerateMission(region.name, d)>>]
        /\ last' = [op |-> "run_mission", region |-> r, agents |-> agents,
                    resolved |-> TRUE, success |-> success,
                    total_stats |-> total_stats,
                    chance_num |-> ChanceNum(total_stats, d),
                    chance_den |-> ChanceDen(d),
                    stressed |-> [k \in 1..Len(agents) |->
                                     Stressed(roster[agents[k]], d, region.fear_q)],
                    statuses |-> <<mission.status, started.status, completed.status>>,
                    mission |-> completed]
        /\ UNCHANGED <<items, rooms, research, day>>

\* a mission resolved without the check for an empty team
RunMission_NoCheck(r, roll) ==
    LET agents == Take(GetAvailableAgents, MAX_AGENTS_PER_MISSION)
        total_stats == SumSeq([k \in 1..Len(agents) |-> GetTotalStats(roster[agents[k]])])
    IN  ResolveMission(r, agents, total_stats,
                       RollSucceeds(roll, total_stats,
                                    regions[r].missions[1].difficulty))

\* Game.run_mission(region) with the outcome roll drawn by random.random()
RunMission(r, roll) ==
    LET agents == Take(GetAvailableAgents, MAX_AGENTS_PER_MISSION)
        total_stats == SumSeq([k \in 1..Len(agents) |-> GetTotalStats(roster[agents[k]])])
    IN  IF agents = <<>>
        THEN /\ mission_log' =
                    Append(mission_log,
                           LogEntry("no_agents", day, regions[r].name, 0))
             /\ last' = [op |-> "run_mission", region |-> r, agents |-> agents,
                         resolved |-> FALSE]
             /\ UNCHANGED <<roster, items, funds, reputation, rooms, research,
                            regions, day>>
        ELSE ResolveMission(r, agents, total_stats,
                            RollSucceeds(roll, total_stats,
                                         regions[r].missions[1].difficulty))

\* a debit that stops at an empty account
Debit_Floor(f, cost) == Max(0, f - cost)

\* self.agency.funds -= cost
Debit(f, cost) == f - cost

\* daily_update's log lines with the salaries paid first
TickLog_SalariesFirst(utilityLog, salaryLog, roomLog) ==
    <<salaryLog>> \o utilityLog \o roomLog

\* the log lines of one daily_update, in the order its steps append them
TickLog(utilityLog, salaryLog, roomLog) == utilityLog \o <<salaryLog>> \o roomLog

\* a daily recovery for every agent that is not available
DailyAgent_AllRecover(a) ==
    IF a.status = "injured" THEN RecoverStressOf(a, 10)
    ELSE IF a.status # "available" THEN RecoverStressOf(a, 20)
         ELSE a

\* daily_update, one agent of the roster
DailyAgent(a) ==
    IF a.status = "resting" THEN RecoverStressOf(a, 20)
    ELSE IF a.status = "injured" THEN RecoverStressOf(a, 10)
         ELSE a

\* a daily advance of half the increment
DailyAdvance_Half(res) ==
    IF res.current_project # "" THEN AdvanceProject(res, 5) ELSE res

\* daily_update, its last step: the active project advances by 10
DailyAdvance(res) ==
    IF res.current_project # "" THEN AdvanceProject(res, 10) ELSE res

\* Game.daily_update
DailyUpdate ==
    LET utilityLog == [k \in 1..Len(Utilities) |->
                          LogEntry("utility", day, Utilities[k].name, Utilities[k].cost)]
        utilityCost == SumSeq([k \in 1..Len(Utilities) |-> Utilities[k].cost])
        salaries == Len(roster) * DAILY_SALARY_PER_AGENT
        roomLog == [k \in 1..Len(rooms) |->
                       LogEntry("maintenance", day, rooms[k].name,
                                GetTotalMaintenanceCost(rooms[k]))]
        roomCost == SumSeq([k \in 1..Len(rooms) |-> GetTotalMaintenanceCost(rooms[k])])
    IN  /\ funds' = Debit(Debit(Debit(funds, utilityCost), salaries), roomCost)
        /\ mission_log' = mission_log
                              \o TickLog(utilityLog, LogEntry("salaries", 0, "", salaries),
                                         roomLog)
        /\ roster' = [i \in 1..Len(roster) |-> DailyAgent(roster[i])]
        /\ research' = DailyAdvance(research)
        /\ day' = day + 1
        /\ last' = [op |-> "daily_update"]
        /\ UNCHANGED <<items, reputation, rooms, regions>>

\* Agent.add_money on the i-th agent
AddMoneyCall(i, amount) ==
    /\ roster' = [roster EXCEPT ![i] = AddMoney(@, amount)]
    /\ last' = [op |-> "add_money", agent |-> i, amount |-> amount]
    /\ UNCHANGED <<items, funds, reputation, mission_log, rooms, research, regions, day>>

\* Game.purchase_item with the i-th agent and a catalog entry selected
PurchaseItem(i, kind) ==
    /\ IF CanSpend(roster[i], Catalog[kind].cost)
       THEN LET e == Len(items) + 1
                paid == [roster[i] EXCEPT !.money = @ - Catalog[kind].cost]
            IN  /\ items' = Append(items, kind)
                /\ roster' = [roster EXCEPT ![i] = AddToInventory(paid, e)]
                /\ last' = [op |-> "purchase_item", agent |-> i, item |-> e, ret |-> TRUE]
       ELSE /\ UNCHANGED <<items, roster>>
            /\ last' = [op |-> "purchase_item", agent |-> i, item |-> NoItem, ret |-> FALSE]
    /\ UNCHANGED <<funds, reputation, mission_log, rooms, research, regions, day>>

\* Agent.equip_item on the i-th agent
EquipItem(i, e) ==
    /\ roster' = [roster EXCEPT ![i] = EquipItemOf(@, e)]
    /\ last' = [op |-> "equip_item", agent |-> i, item |-> e,
                ret |-> InInventory(roster[i], e)]
    /\ UNCHANGED <<items, funds, reputation, mission_log, rooms, research, regions, day>>

\* Agent.unequip_item on the i-th agent
UnequipItem(i, t) ==
    /\ roster' = [roster EXCEPT ![i] = UnequipItemOf(@, t)]
    /\ last' = [op |-> "unequip_item", agent |-> i, item |-> roster[i].equipped[t],
                ret |-> roster[i].equipped[t] # NoItem]
    /\ UNCHANGED <<items, funds, reputation, mission_log, rooms, research, regions, day>>

\* Agent.get_equipped_stats on the i-th agent
GetEquippedStatsCall(i) ==
    /\ last' = [op |-> "get_equipped_stats", agent |-> i,
                ret |-> GetEquippedStats(roster[i])]
    /\ UNCHANGED <<roster, items, funds, reputation, mission_log, rooms, research,
                   regions, day>>

\* Agent.remove_from_inventory on the i-th agent
RemoveFromInventory(i, e) ==
    /\ roster' = [roster EXCEPT ![i] = RemoveFromInventoryOf(@, e)]
    /\ last' = [op |-> "remove_from_inventory", agent |-> i, item |-> e,
                ret |-> InInventory(roster[i], e)]
    /\ UNCHANGED <<items, funds, reputation, mission_log, rooms, research, regions, day>>

\* Mission.start on the mission of region r
StartMission(r) ==
    /\ regions' = [regions EXCEPT ![r].missions[1] = MissionStart(@)]
    /\ last' = [op |-> "mission_start", region |-> r]
    /\ UNCHANGED <<roster, items, funds, reputation, mission_log, rooms, research, day>>

\* Mission.complete on the mission of region r
CompleteMission(r, success) ==
    /\ regions' = [regions EXCEPT ![r].missions[1] = MissionComplete(@, success)]
    /\ last' = [op |-> "mission_complete", region |-> r, success |-> success]
    /\ UNCHANGED <<roster, items, funds, reputation, mission_log, rooms, research, day>>

\* Mission.assign_agent on the mission of region r
AssignAgentTo(r, name) ==
    /\ regions' = [regions EXCEPT ![r].missions[1] = AssignAgent(@, name)]
    /\ last' = [op |-> "mission_assign_agent", region |-> r, name |-> name,
                ret |-> Len(regions[r].missions[1].assigned_agents) < MAX_AGENTS_PER_MISSION]
    /\ UNCHANGED <<roster, items, funds, reputation, mission_log, rooms, research, day>>

\* Mission.remove_agent on the mission of region r
RemoveAgentFrom(r, name) ==
    /\ regions' = [regions EXCEPT ![r].missions[1] = RemoveAgent(@, name)]
    /\ last' = [op |-> "mission_remove_agent", region |-> r, name |-> name,
                ret |-> RemoveAgentRet(regions[r].missions[1], name)]
    /\ UNCHANGED <<roster, items, funds, reputation, mission_log, rooms, research, day>>

\* Research.start_project
ResearchStart(project) ==
    /\ research' = StartProjectOf(research, project)
    /\ last' = [op |-> "start_project", project |-> project,
                ret |-> StartProjectRet(research, project)]
    /\ UNCHANGED <<roster, items, funds, reputation, mission_log, rooms, regions, day>>

\* Research.advance_project
ResearchAdvance(amount) ==
    /\ research' = AdvanceProject(research, amount)
    /\ last' = [op |-> "advance_project", amount |-> amount,
                ret |-> AdvanceProjectRet(research, amount)]
    /\ UNCHANGED <<roster, items, funds, reputation, mission_log, rooms, regions, day>>

\* Research.complete_project
ResearchComplete ==
    /\ research' = CompleteProject(research)
    /\ last' = [op |-> "complete_project", had |-> research.current_project # ""]
    /\ UNCHANGED <<roster, items, funds, reputation, mission_log, rooms, regions, day>>

\* Game.handle_events, research screen: a click on an available project
ClickProject(project) ==
    /\ InList(project, GetAvailableProjects(research))
    /\ IF funds >= RESEARCH_PROJECT_COST /\ StartProjectRet(research, project)
       THEN /\ research' = StartProjectOf(research, project)
            /\ funds' = funds - RESEARCH_PROJECT_COST
            /\ mission_log' = Append(mission_log,
                                     LogEntry("research", 0, project, RESEARCH_PROJECT_COST))
       ELSE UNCHANGED <<research, funds, mission_log>>
    /\ last' = [op |-> "click_project", project |-> project]
    /\ UNCHANGED <<roster, items, reputation, rooms, regions, day>>

\* Room.upgrade on the k-th room
RoomUpgrade(k) ==
    /\ rooms' = [rooms EXCEPT ![k] = UpgradeOf(@)]
    /\ last' = [op |-> "upgrade", room |-> k, ret |-> UpgradeRet(rooms[k])]
    /\ UNCHANGED <<roster, items, funds, reputation, mission_log, research, regions, day>>

\* Room.add_upgrade on the k-th room
RoomAddUpgrade(k, upgrade) ==
    /\ rooms' = [rooms EXCEPT ![k] = AddUpgradeOf(@, upgrade)]
    /\ last' = [op |-> "add_upgrade", room |-> k, upgrade |-> upgrade,
                ret |-> AddUpgradeRet(rooms[k], upgrade)]
    /\ UNCHANGED <<roster, items, funds, reputation, mission_log, research, regions, day>>

\* Room.remove_upgrade on the k-th room
RoomRemoveUpgrade(k, upgrade) ==
    /\ rooms' = [rooms EXCEPT ![k] = RemoveUpgradeOf(@, upgrade)]
    /\ last' = [op |-> "remove_upgrade", room |-> k, upgrade |-> upgrade,
                ret |-> RemoveUpgradeRet(rooms[k], upgrade)]
    /\ UNCHANGED <<roster, items, funds, reputation, mission_log, research, regions, day>>

\* The headquarters screen works on the agency's funds, rooms and log; hq is
\* a record of the three.
\* an upgrade command that charges before it asks the room
HQUpgradeRoom_Charge(hq, k) ==
    IF hq.funds >= MAINTENANCE_COST_INCREASE
    THEN [hq EXCEPT !.rooms[k] = UpgradeOf(@),
                    !.funds = @ - MAINTENANCE_COST_INCREASE]
    ELSE hq

\* handle_events, headquarters screen: the upgrade column of the k-th room
HQUpgradeRoom(hq, k) ==
    LET room == hq.rooms[k]
    IN  IF hq.funds >= MAINTENANCE_COST_INCREASE /\ UpgradeRet(room)
        THEN [hq EXCEPT !.rooms[k] = UpgradeOf(room),
                        !.funds = @ - MAINTENANCE_COST_INCREASE,
                        !.log = Append(@, LogEntry("upgraded", 0, room.name,
                                                   room.level + 1))]
        ELSE hq

\* the position of a project in RESEARCH_PROJECTS
ProjectIndex(project) ==
    CHOOSE n \in 1..Len(RESEARCH_PROJECTS) : RESEARCH_PROJECTS[n] = project

\* handle_events, headquarters screen: the add-upgrade column of the k-th
\* room, upgrade drawn by random.choice
HQAddUpgrade(hq, k, upgrade) ==
    LET room == hq.rooms[k]
    IN  IF hq.funds >= UPGRADE_MAINTENANCE_COST /\ AddUpgradeRet(room, upgrade)
        THEN [hq EXCEPT !.rooms[k] = AddUpgradeOf(room, upgrade),
                        !.funds = @ - UPGRADE_MAINTENANCE_COST,
                        !.log = Append(@, LogEntry("added_upgrade", 0, room.name,
                                                   ProjectIndex(upgrade)))]
        ELSE hq

\* handle_events, headquarters screen: the loop over the rooms from the k-th
\* on, for a click at (mx, my). The k-th room's area starts at y and includes
\* both of its edges, so a click on an edge reaches two rooms; the first room
\* reached draws upgrade u1, the second u2.
RECURSIVE HQRooms(_, _, _, _, _, _)
HQRooms(hq, k, mx, my, u1, u2) ==
    IF k > Len(hq.rooms) THEN hq
    ELSE LET y == 50 + 60 * (k - 1)
             upgrade == IF k = 1 \/ my > y THEN u1 ELSE u2
             after == IF y <= my /\ my <= y + 60
                      THEN IF mx >= 200 /\ mx <= 300 THEN HQUpgradeRoom(hq, k)
                           ELSE IF mx >= 300 /\ mx <= 400
                                THEN HQAddUpgrade(hq, k, upgrade)
                                ELSE hq
                      ELSE hq
         IN  HQRooms(after, k + 1, mx, my, u1, u2)

\* a new room added without looking at the funds
HQAddRoom_OnCredit(hq, my, room_type) ==
    LET y == 50 + 60 * Len(hq.rooms)
        room == NewRoom(room_type)
    IN  IF /\ Len(hq.rooms) < MAX_ROOMS
           /\ y <= my /\ my <= y + 30
        THEN [hq EXCEPT !.rooms = Append(@, room),
                        !.funds = @ - DEFAULT_MAINTENANCE_COST,
                        !.log = Append(@, LogEntry("new_room", 0, room.name, 0))]
        ELSE hq

\* handle_events, headquarters screen: the new-room area below the rooms
HQAddRoom(hq, my, room_type) ==
    LET y == 50 + 60 * Len(hq.rooms)
        room == NewRoom(room_type)
    IN  IF /\ Len(hq.rooms) < MAX_ROOMS
           /\ y <= my /\ my <= y + 30
           /\ hq.funds >= DEFAULT_MAINTENANCE_COST
        THEN [hq EXCEPT !.rooms = Append(@, room),
                        !.funds = @ - DEFAULT_MAINTENANCE_COST,
                        !.log = Append(@, LogEntry("new_room", 0, room.name, 0))]
        ELSE hq

\* Game.menu_options: the labels of the menu buttons, from the top
MenuLabels == <<"Agency", "HQ", "Roster", "Research", "Log", "Next Day", "Exit">>

\* handle_events, the menu loop: the first button whose rectangle
\* Rect(10, 10 + i*30, 140, 24) holds (mx, my), 0 when none does; a
\* rectangle holds its left and top edges and not its right and bottom ones
MenuButton(mx, my) ==
    LET hit == {b \in 1..Len(MenuLabels) :
                   /\ 10 <= mx /\ mx < 10 + 140
                   /\ 10 + (b - 1) * 30 <= my /\ my < 10 + (b - 1) * 30 + 24}
    IN  IF hit = {} THEN 0 ELSE CHOOSE b \in hit : \A c \in hit : b <= c

\* handle_events, headquarters screen, below the menu loop: the rooms and
\* the new-room area, with the values random.choice draws
HQBlock(mx, my, u1, u2, room_type) ==
    LET hq == [funds |-> funds, rooms |-> rooms, log |-> mission_log]
        after == HQAddRoom(HQRooms(hq, 1, mx, my, u1, u2), my, room_type)
    IN  /\ funds' = after.funds
        /\ rooms' = after.rooms
        /\ mission_log' = after.log
        /\ last' = [op |-> "click_hq", mx |-> mx, my |-> my,
                    paid |-> funds - after.funds]
        /\ UNCHANGED <<roster, items, reputation, research, regions, day>>

\* Game.handle_events, a click at (mx, my) while the headquarters screen is
\* shown. A click on a menu button acts on the menu and returns before the
\* headquarters block: "Next Day" runs daily_update, a screen button only
\* changes the screen shown, "Exit" ends the program (no step follows).
ClickHQ(mx, my, u1, u2, room_type) ==
    LET button == MenuButton(mx, my)
    IN  IF button = 0 THEN HQBlock(mx, my, u1, u2, room_type)
        ELSE IF MenuLabels[button] = "Next Day" THEN DailyUpdate
        ELSE /\ MenuLabels[button] # "Exit"
             /\ last' = [op |-> "click_menu", mx |-> mx, my |-> my,
                         label |-> MenuLabels[button]]
             /\ UNCHANGED <<roster, items, funds, reputation, mission_log, rooms,
                            research, regions, day>>

\* Region.generate_mission(difficulty) on the r-th region, with the ghost
\* type drawn
RegionGenerateMission(r, difficulty, ghost_type) ==
    /\ regions' = [regions EXCEPT ![r].missions =
                       <<GenerateMissionWithGhost(regions[r].name, difficulty, ghost_type)>>]
    /\ last' = [op |-> "generate_mission", region |-> r, difficulty |-> difficulty,
                ghost_type |-> ghost_type]
    /\ UNCHANGED <<roster, items, funds, reputation, mission_log, rooms, research, day>>

\* ------------------------------------------------- the agency over time
\* Game.__init__: Agency(), WorldMap() with its regions' modifiers and first
\* missions drawn at random.
RegionChoices(name) ==
    {NewRegion(name, fq, d) : fq \in FearQuarters, d \in DIFFICULTY_VALUES}

\* WorldMap(): one region per location, each with its drawn modifiers and mission
Worlds(n) ==
    {rs \in [1..n -> UNION {RegionChoices(LOCATIONS[k]) : k \in 1..n}] :
        \A k \in 1..n : rs[k].name = LOCATIONS[k]}

\* The agency models follow the first region of the map: run_mission touches
\* only the region clicked, so the other regions never interact with it.
StartWorlds ==
    {rs \in Worlds(1) :
        <<rs[1].fear_q, rs[1].missions[1].difficulty>> \in {<<4, 2>>, <<6, 4>>}}

Init ==
    /\ roster = <<>>
    /\ items = <<>>
    /\ funds = STARTING_FUNDS
    /\ reputation = STARTING_REPUTATION
    /\ mission_log = <<>>
    /\ rooms = <<>>
    /\ research = NewResearch
    /\ regions \in {rs \in StartWorlds : rs[1].fear_q = 6}
    /\ day = 1
    /\ last = [op |-> "init"]

\* amounts the callers pass: apply_stress and recover_stress take any int
StressAmounts == {-20, 20, 100}
RecoverAmounts == {20}

LogBounded == Len(mission_log') <= MaxLog

Hire == Len(roster) < MaxRoster /\ HireRandomAgent /\ LogBounded
Mission == \E r \in 1..Len(regions), roll \in {0, 50} : RunMission(r, roll) /\ LogBounded
Tick == DailyUpdate /\ LogBounded
Stress ==
    \E i \in 1..Len(roster), amount \in StressAmounts, coin \in BOOLEAN :
        /\ roster[i].stress + amount >= -MaxDeficit
        /\ ApplyStress(i, amount, coin)
Recover == \E i \in 1..Len(roster), amount \in RecoverAmounts : RecoverStress(i, amount)
Next == Hire \/ Mission \/ Tick \/ Stress \/ Recover

Spec == Init /\ [][Next]_vars

\* ------------------------------------------- the agency's reputation
\* The game as main starts it: Game(), then the two initial hires.
StartedRoster == <<AgentRandom(AgentNames[1], [s \in STAT_NAMES |-> MIN_STAT]),
                   AgentRandom(AgentNames[2], [s \in STAT_NAMES |-> MIN_STAT])>>
StartedLog == <<LogEntry("hired", 0, AgentNames[1], 1), LogEntry("hired", 0, AgentNames[2], 1)>>

InitStarted ==
    /\ roster = StartedRoster
    /\ items = <<>>
    /\ funds = STARTING_FUNDS
    /\ reputation = STARTING_REPUTATION
    /\ mission_log = StartedLog
    /\ rooms = <<>>
    /\ research = NewResearch
    /\ regions \in StartWorlds
    /\ day = 1
    /\ last = [op |-> "init"]

ReputationAmounts == {-200, -7, 3, 200}

LogBoundedRep == Len(mission_log') <= Len(StartedLog) + MaxLog

Reputation == \E amount \in ReputationAmounts : UpdateReputation(amount) /\ LogBoundedRep
MissionRep == \E roll \in {0, 50} : RunMission(1, roll) /\ LogBoundedRep

NextRep == Reputation \/ MissionRep

SpecRep == InitStarted /\ [][NextRep]_vars

\* ------------------------------------------------ the agents' equipment
\* instance e is in the inventory list of a / in one of its slots
InInventoryList(a, e) == \E k \in 1..Len(a.inventory) : a.inventory[k] = e
InSlot(a, e) == \E t \in EquipmentType : a.equipped[t] = e
Holds(a, e) == InInventoryList(a, e) \/ InSlot(a, e)

\* The two agents main hires, with no money yet; add_money hands them the
\* amounts of MoneyGifts to shop with, up to MaxMoney each.
MaxMoney == 2000
MoneyGifts == {1000}

InitEquip ==
    /\ roster = StartedRoster
    /\ items = <<>>
    /\ funds = STARTING_FUNDS
    /\ reputation = STARTING_REPUTATION
    /\ mission_log = StartedLog
    /\ rooms = <<>>
    /\ research = NewResearch
    /\ regions \in {rs \in StartWorlds : rs[1].fear_q = 4}
    /\ day = 1
    /\ last = [op |-> "init"]

\* the instances an agent can be handed: its own and those nobody holds
Reachable(i) == {e \in 1..Len(items) : \A j \in 1..Len(roster) : j # i => ~Holds(roster[j], e)}

Fund == \E i \in 1..Len(roster), amount \in MoneyGifts :
            roster[i].money + amount <= MaxMoney /\ AddMoneyCall(i, amount)
Purchase == \E i \in 1..Len(roster), kind \in ItemKinds :
                Len(items) < MaxItems /\ PurchaseItem(i, kind)
Equip == \E i \in 1..Len(roster) : \E e \in Reachable(i) : EquipItem(i, e)
Unequip == \E i \in 1..Len(roster), t \in EquipmentType : UnequipItem(i, t)
Discard == \E i \in 1..Len(roster) : \E e \in Reachable(i) : RemoveFromInventory(i, e)

NextEquip == Fund \/ Purchase \/ Equip \/ Unequip \/ Discard

SpecEquip == InitEquip /\ [][NextEquip]_vars

\* -------------------------------------------------- one mission resolved
\* Agents of a running agency, as earlier operations left them.  The agent at
\* roster position i owns the equipment instances 3i-2 (a ghost gun), 3i-1 (a
\* ghost scanner) and 3i (an ecto armor).
Kit == <<"ghost_gun", "ghost_scanner", "ecto_armor">>

Fresh(i) == NewAgent(AgentNames[i])
Worn(i) == [Fresh(i) EXCEPT !.stress = 90, !.experience = 90]
Resting(i) == [Fresh(i) EXCEPT !.status = "resting", !.stress = 80]
Veteran(i) ==
    [Fresh(i) EXCEPT !.level = 3, !.experience = 260,
                     !.stats = [s \in STAT_NAMES |-> 3],
                     !.equipped = [t \in EquipmentType |->
                                      IF t = "weapon" THEN 3 * i - 2
                                      ELSE IF t = "tool" THEN 3 * i - 1 ELSE NoItem],
                     !.inventory = <<3 * i>>]

Shapes == {"fresh", "worn", "resting", "veteran"}

Shaped(shape, i) ==
    CASE shape = "fresh" -> Fresh(i)
      [] shape = "worn" -> Worn(i)
      [] shape = "resting" -> Resting(i)
      [] shape = "veteran" -> Veteran(i)

Teams(k) == {[i \in 1..k |-> Shaped(shapes[i], i)] : shapes \in [1..k -> Shapes]}

InitMission ==
    /\ \E k \in 1..MaxTeam :
          /\ roster \in Teams(k)
          /\ items = [e \in 1..(3 * k) |-> Kit[((e - 1) % 3) + 1]]
          /\ mission_log = [i \in 1..k |-> LogEntry("hired", 0, AgentNames[i], 1)]
    /\ funds = STARTING_FUNDS
    /\ reputation \in {3, 90}
    /\ rooms = <<>>
    /\ research = NewResearch
    /\ regions \in Worlds(1)
    /\ day = 1
    /\ last = [op |-> "init"]

\* one click on the region
MissionOnce == last.op = "init" /\ \E roll \in Rolls : RunMission(1, roll)

NextMission == MissionOnce

SpecMission == InitMission /\ [][NextMission]_vars

\* ---------------------------------------------------- claims on the agency
\* C1: once an agent's status is deceased, no operation changes it.
DeceasedIsTerminal ==
    [][\A i \in 1..Len(roster) :
          roster[i].status = "deceased" => roster'[i].status = "deceased"]_vars

\* C2: an assigned agent whose stress reaches 100 in the stress step of a
\* mission is, right after that step, deceased or resting with stress 80.
MissionStressBreaksDown ==
    [][(last'.op = "run_mission" /\ last'.resolved) =>
          \A k \in 1..Len(last'.agents) :
              LET i == last'.agents[k]
                  m == regions[last'.region].missions[1]
                  added == (m.difficulty * 10 * regions[last'.region].fear_q) \div 4
                  after == last'.stressed[k]
              IN  roster[i].stress + added >= 100 =>
                      \/ after.status = "deceased"
                      \/ after.status = "resting" /\ after.stress = 80]_vars

\* C3: every agent's stress is within 0..100 in every state the operations
\* reach.
StressInRange == \A i \in 1..Len(roster) : roster[i].stress \in 0..100

\* C6: apply_stress(amount) sets stress to min(100, stress + amount); at 100
\* the agent is deceased, or resting with stress 80; below 100 the status is
\* unchanged.
ApplyStressOutcome ==
    [][last'.op = "apply_stress" =>
          LET i == last'.agent
              sum == roster[i].stress + last'.amount
              a == roster'[i]
          IN  IF sum >= 100
              THEN \/ a.status = "deceased" /\ a.stress = 100
                   \/ a.status = "resting" /\ a.stress = 80
              ELSE a.stress = sum /\ a.status = roster[i].status]_vars

\* apply_stress has just put an agent to rest
BrokeDownToRest ==
    /\ last.op = "apply_stress"
    /\ roster[last.agent].status = "resting"
    /\ roster[last.agent].stress = 80

\* C4: reputation stays within 0..100, and update_reputation(amount) sets it
\* to reputation + amount cut off at 0 and at 100.
ReputationClamped ==
    /\ [](reputation \in 0..100)
    /\ [][last'.op = "update_reputation" =>
            LET sum == reputation + last'.amount
            IN  reputation' = IF sum > 100 THEN 100 ELSE IF sum < 0 THEN 0 ELSE sum]_vars

\* update_reputation has cut a large loss off at 0
ReputationFloored ==
    last.op = "update_reputation" /\ last.amount < -100 /\ reputation = 0

\* C5: no equipment instance is in an inventory and in a slot at once, in two
\* slots, or held by two agents.
EquipmentExclusive ==
    \A e \in 1..Len(items) :
        /\ \A i \in 1..Len(roster) :
               /\ ~(InInventoryList(roster[i], e) /\ InSlot(roster[i], e))
               /\ Cardinality({t \in EquipmentType : roster[i].equipped[t] = e}) <= 1
        /\ Cardinality({i \in 1..Len(roster) : Holds(roster[i], e)}) <= 1

\* ------------------------------------------------ claims on one mission
\* a mission was resolved in this step
Resolved == last'.op = "run_mission" /\ last'.resolved

\* the stat total of one agent, written out: the five base stats and the
\* stats of the items in its slots
ItemTotal(kind) ==
    CASE kind = "ghost_gun" -> 3 [] kind = "ecto_armor" -> 3 [] kind = "ghost_scanner" -> 2
SlotTotal(a, t) == IF a.equipped[t] = NoItem THEN 0 ELSE ItemTotal(items[a.equipped[t]])
AgentTotal(a) ==
    a.stats.will + a.stats.tech + a.stats.combat + a.stats.fear_resist + a.stats.charisma
        + SlotTotal(a, "weapon") + SlotTotal(a, "armor") + SlotTotal(a, "tool")
        + SlotTotal(a, "trinket")

RECURSIVE TeamTotal(_)
TeamTotal(idx) ==
    IF idx = <<>> THEN 0 ELSE AgentTotal(roster[Head(idx)]) + TeamTotal(Tail(idx))

\* C7: a resolved mission adds floor(difficulty x 10 x fear multiplier) to the
\* stress of every assigned agent, cut off at 100, on success and on failure.
MissionAddsStress ==
    [][Resolved =>
          \A k \in 1..Len(last'.agents) :
              LET i == last'.agents[k]
                  m == regions[last'.region].missions[1]
                  added == (m.difficulty * 10 * regions[last'.region].fear_q) \div 4
                  sum == roster[i].stress + added
              IN  roster'[i].stress = IF sum > 100 THEN 100 ELSE sum]_vars

\* a failed mission with a multiplier above 1 has stressed two agents, one of
\* them up to the ceiling
StressedOnFailure ==
    /\ last.op = "run_mission" /\ last.resolved /\ ~last.success
    /\ regions[1].fear_q = 5
    /\ Len(last.agents) >= 2
    /\ \E j, k \in 1..Len(last.agents) :
          /\ roster[last.agents[j]].stress = 100
          /\ roster[last.agents[k]].stress \in 1..99

\* C8: the success chance is min(0.95, total_stats / (difficulty x 10)), within
\* [0, 0.95], total_stats being the assigned agents' base stats plus the stats
\* of their equipped items.
SuccessChance ==
    [][Resolved =>
          LET d == regions[last'.region].missions[1].difficulty
              total == TeamTotal(last'.agents)
              num == last'.chance_num
              den == last'.chance_den
          IN  /\ Len(last'.agents) \in 1..4
              /\ den > 0 /\ num >= 0 /\ 100 * num <= 95 * den
              /\ IF 100 * total >= 95 * 10 * d
                 THEN 100 * num = 95 * den
                 ELSE num * 10 * d = total * den]_vars

\* total_stats 50 at difficulty 4: the chance is 0.95
ChanceCapped ==
    /\ last.op = "run_mission" /\ last.resolved
    /\ last.total_stats = 50 /\ last.mission.difficulty = 4
    /\ 100 * last.chance_num = 95 * last.chance_den

\* C9: on success funds grow by the reward, every assigned agent gains
\* difficulty x 10 experience and reputation becomes min(100, reputation +
\* difficulty x 5).
SuccessRewards ==
    [][(Resolved /\ last'.success) =>
          LET m == regions[last'.region].missions[1]
          IN  /\ funds' = funds + m.reward
              /\ \A k \in 1..Len(last'.agents) :
                     roster'[last'.agents[k]].experience
                         = roster[last'.agents[k]].experience + m.difficulty * 10
              /\ reputation' = IF reputation + m.difficulty * 5 > 100 THEN 100
                               ELSE reputation + m.difficulty * 5]_vars

\* a success that levelled an agent up and ran reputation into 100
SuccessAtCeiling ==
    /\ last.op = "run_mission" /\ last.resolved /\ last.success
    /\ reputation = 100
    /\ funds = STARTING_FUNDS + last.mission.reward
    /\ \E k \in 1..Len(last.agents) :
          /\ roster[last.agents[k]].experience = 90 + last.mission.difficulty * 10
          /\ roster[last.agents[k]].level = 2

\* C10: on failure reputation becomes max(0, reputation - difficulty x 2);
\* funds and every agent's experience, level and stats stay as they were.
FailureEffects ==
    [][(Resolved /\ ~last'.success) =>
          LET m == regions[last'.region].missions[1]
          IN  /\ reputation' = IF reputation - m.difficulty * 2 < 0 THEN 0
                               ELSE reputation - m.difficulty * 2
              /\ funds' = funds
              /\ Len(roster') = Len(roster)
              /\ \A i \in 1..Len(roster) :
                     /\ roster'[i].experience = roster[i].experience
                     /\ roster'[i].level = roster[i].level
                     /\ roster'[i].stats = roster[i].stats]_vars

\* a failure that ran reputation into 0
FailureAtFloor ==
    /\ last.op = "run_mission" /\ last.resolved /\ ~last.success
    /\ reputation = 0 /\ last.mission.difficulty >= 2
    /\ funds = STARTING_FUNDS

\* ------------------------------------------------ a mission's life cycle
\* The started game, with the methods of the region's mission called one by one
\* as well as through run_mission.
StartOne == \E r \in 1..Len(regions) : StartMission(r)
CompleteOne == \E r \in 1..Len(regions), success \in BOOLEAN : CompleteMission(r, success)
AssignOne ==
    \E r \in 1..Len(regions), i \in 1..Len(roster) : AssignAgentTo(r, roster[i].name)

RemoveOne ==
    \E r \in 1..Len(regions), i \in 1..Len(roster) : RemoveAgentFrom(r, roster[i].name)

NextLifecycle == StartOne \/ CompleteOne \/ AssignOne \/ RemoveOne \/ MissionRep

SpecLifecycle == InitStarted /\ [][NextLifecycle]_vars

\* C11: a mission is started only from available and finished only from
\* in_progress, completed exactly when the outcome roll succeeded; a completed
\* or failed mission keeps its status.
MissionLifecycle ==
    [][/\ last'.op = "mission_start" =>
              regions[last'.region].missions[1].status = "available"
       /\ last'.op = "mission_complete" =>
              regions[last'.region].missions[1].status = "in_progress"
       /\ (last'.op = "run_mission" /\ last'.resolved) =>
              last'.statuses = <<"available", "in_progress",
                                 IF last'.success THEN "completed" ELSE "failed">>]_vars

\* C12: when run_mission returns every assigned agent is available, on success
\* and on failure, and no agent of the roster is on_mission between operations.
AssignedReturnAvailable ==
    /\ [](\A i \in 1..Len(roster) : roster[i].status # "on_mission")
    /\ [][(last'.op = "run_mission" /\ last'.resolved) =>
            \A k \in 1..Len(last'.agents) :
                roster'[last'.agents[k]].status = "available"]_vars

\* a failed mission has returned an agent at stress 100 as available
ReleasedAtFullStress ==
    /\ last.op = "run_mission" /\ last.resolved /\ ~last.success
    /\ \E k \in 1..Len(last.agents) :
          /\ roster[last.agents[k]].stress = 100
          /\ roster[last.agents[k]].status = "available"

\* ------------------------------------------------------ the world's regions
\* The started game on a map of NumRegions regions, missions run in any of
\* them.  The fear multiplier plays no part in what a region holds.
InitWorld ==
    /\ roster = StartedRoster
    /\ items = <<>>
    /\ funds = STARTING_FUNDS
    /\ reputation = STARTING_REPUTATION
    /\ mission_log = StartedLog
    /\ rooms = <<>>
    /\ research = NewResearch
    /\ regions \in {rs \in Worlds(NumRegions) : \A r \in 1..NumRegions : rs[r].fear_q = 5}
    /\ day = 1
    /\ last = [op |-> "init"]

MissionAnywhere ==
    \E r \in 1..Len(regions), roll \in {0, 50} : RunMission(r, roll) /\ LogBoundedRep

NextWorld == MissionAnywhere

SpecWorld == InitWorld /\ [][NextWorld]_vars

\* C13: every region holds exactly one mission, available and with no assigned
\* agents, and no mission resolution changes a region's difficulty.
RegionHoldsOneMission ==
    /\ [](\A r \in 1..Len(regions) :
             /\ Len(regions[r].missions) = 1
             /\ regions[r].missions[1].status = "available"
             /\ regions[r].missions[1].assigned_agents = <<>>)
    /\ [][/\ Len(regions') = Len(regions)
           /\ \A r \in 1..Len(regions) :
                  regions'[r].missions[1].difficulty = regions[r].missions[1].difficulty]_vars

\* a region's mission was resolved and replaced, the other region untouched
MissionRegenerated ==
    /\ last.op = "run_mission" /\ last.resolved
    /\ last.region = 2
    /\ last.mission.status = "completed"
    /\ last.mission.assigned_agents # <<>>
    /\ regions[2].missions[1].difficulty = last.mission.difficulty
    /\ regions[2].missions[1].status = "available"

\* ----------------------------------------------------------- the daily tick
\* An agency some days into a game: the agent at position 1 was put to rest by
\* a breakdown (resting, stress 80); the others are fresh, worn or resting
\* at stress 70; rooms were added and upgraded at the HQ.
Weary(i) == [Fresh(i) EXCEPT !.status = "resting", !.stress = 70]

CrewShapes == {"fresh", "worn", "weary"}

Crewed(shape, i) ==
    CASE shape = "fresh" -> Fresh(i)
      [] shape = "worn" -> Worn(i)
      [] shape = "weary" -> Weary(i)

Crews(k) ==
    {[i \in 1..k |-> IF i = 1 THEN Resting(1) ELSE Crewed(shapes[i], i)] :
        shapes \in [1..k -> CrewShapes]}

\* a room after one Room.upgrade and two add_upgrade calls
UpgradedRoom ==
    [NewRoom("Research") EXCEPT
        !.level = 2,
        !.capacity = DEFAULT_ROOM_CAPACITY + ROOM_CAPACITY_INCREASE,
        !.maintenance_cost = DEFAULT_MAINTENANCE_COST + MAINTENANCE_COST_INCREASE,
        !.upgrades = <<"Basic Equipment", "Advanced Sensors">>]

RoomSets == {<<>>, <<NewRoom("Training")>>, <<UpgradedRoom, NewRoom("Medical")>>}

\* a project started and advanced to 85
ActiveResearch ==
    [completed_projects |-> <<>>, current_project |-> "Basic Equipment", progress |-> 85]

InitTick ==
    /\ \E k \in 1..MaxCrew :
          /\ roster \in Crews(k)
          /\ mission_log = [i \in 1..k |-> LogEntry("hired", 0, AgentNames[i], 1)]
    /\ items = <<>>
    /\ funds \in {STARTING_FUNDS, 100}
    /\ reputation = STARTING_REPUTATION
    /\ rooms \in RoomSets
    /\ research \in {NewResearch, ActiveResearch}
    /\ regions \in {rs \in StartWorlds : rs[1].fear_q = 4}
    /\ day = 1
    /\ last = [op |-> "init"]

NextDay == day <= MaxTicks /\ DailyUpdate

NextTick == NextDay

SpecTick == InitTick /\ [][NextTick]_vars

\* a daily tick happens in this step
Ticked == last'.op = "daily_update"

\* what one day costs, written out
RoomCostSum(rs) ==
    SumSeq([k \in 1..Len(rs) |-> rs[k].maintenance_cost + 10 * Len(rs[k].upgrades)])
DayCost == (50 + 30 + 40 + 20) + Len(roster) * 10 + RoomCostSum(rooms)

\* C14: one daily tick changes funds by exactly minus (utilities + 10 per
\* agent + every room's maintenance cost + 10 per room upgrade), whatever the
\* sign of funds; 5000 with 2 agents and one 50-cost room gives 4790.
TickDebitsFunds ==
    [][Ticked =>
          /\ funds' = funds - DayCost
          /\ (funds = 5000 /\ Len(roster) = 2 /\ Len(rooms) = 1
                 /\ rooms[1].maintenance_cost = 50 /\ rooms[1].upgrades = <<>>)
                => funds' = 4790]_vars

\* a tick has debited an account that was already overdrawn
DebitedWhileNegative ==
    /\ last.op = "daily_update"
    /\ funds + DayCost < 0
    /\ Len(roster) = 2 /\ Len(rooms) = 2

\* the lines a step appended to the mission log
Appended == SubSeq(mission_log', Len(mission_log) + 1, Len(mission_log'))

\* C15: a daily tick logs every utility, then the salaries, then every room's
\* maintenance, all still under the old day number, and then raises the day
\* counter by exactly 1.
TickStepsInOrder ==
    [][Ticked =>
          LET nu == Len(Utilities)
              nr == Len(rooms)
          IN  /\ SubSeq(mission_log', 1, Len(mission_log)) = mission_log
              /\ Len(Appended) = nu + 1 + nr
              /\ \A k \in 1..nu :
                     /\ Appended[k].kind = "utility"
                     /\ Appended[k].day = day
                     /\ Appended[k].subject = Utilities[k].name
              /\ Appended[nu + 1].kind = "salaries"
              /\ Appended[nu + 1].amount = Len(roster) * 10
              /\ \A k \in 1..nr :
                     /\ Appended[nu + 1 + k].kind = "maintenance"
                     /\ Appended[nu + 1 + k].day = day
                     /\ Appended[nu + 1 + k].subject = rooms[k].name
              /\ day' = day + 1]_vars

\* a second tick has logged four utilities, the salaries and two rooms
TickLoggedInOrder ==
    /\ last.op = "daily_update" /\ day = 3
    /\ Len(rooms) = 2
    /\ LET n == Len(mission_log)
       IN  /\ mission_log[n].kind = "maintenance" /\ mission_log[n].day = 2
           /\ mission_log[n - 2].kind = "salaries"
           /\ mission_log[n - 3].kind = "utility" /\ mission_log[n - 3].day = 2

\* C17: a daily tick lowers a resting agent's stress by 20, floored at 0, and
\* makes it available exactly when its stress reaches 0; the agent put to rest
\* at stress 80 is available after exactly 4 ticks.
RestingRecovers ==
    /\ [][Ticked =>
            \A i \in 1..Len(roster) :
                roster[i].status = "resting" =>
                    LET rest == IF roster[i].stress > 20
                                THEN roster[i].stress - 20 ELSE 0
                    IN  /\ roster'[i].stress = rest
                        /\ roster'[i].status
                               = IF rest = 0 THEN "available" ELSE "resting"]_vars
    /\ [](/\ roster[1].status = "available" <=> day - 1 >= 4
           /\ roster[1].status \in {"available", "resting"})

\* the fourth tick has made the agent resting since stress 80 available
RestedAfterFourTicks ==
    /\ last.op = "daily_update" /\ day = 5
    /\ roster[1].status = "available" /\ roster[1].stress = 0

\* ------------------------------------------------------------------ research
\* The started game with its research tracker driven by the research screen,
\* by the tracker's own methods and by the daily advance.
Projects == {RESEARCH_PROJECTS[k] : k \in 1..NumProjects}

\* start_project's argument: a project, or the empty string
StartArguments == Projects \cup {""}

\* advance_project's argument (non-negative)
AdvanceAmounts == {0, 10, 60, 100, 250}

Click == \E project \in Projects : ClickProject(project)
Start == \E project \in StartArguments : ResearchStart(project)
Advance == \E amount \in AdvanceAmounts : ResearchAdvance(amount)
Complete == ResearchComplete
ResearchDay == day <= MaxResearchDays /\ DailyUpdate

NextResearch == Click \/ Start \/ Advance \/ Complete \/ ResearchDay

SpecResearch == InitStarted /\ [][NextResearch]_vars

\* C18: start_project(p) fails and changes nothing when p is completed or a
\* project is active; otherwise it succeeds with current_project = p and
\* progress = 0.
StartProjectOutcome ==
    [][last'.op = "start_project" =>
          LET p == last'.project
              blocked == \/ \E k \in 1..Len(research.completed_projects) :
                               research.completed_projects[k] = p
                         \/ research.current_project # ""
          IN  IF blocked
              THEN ~last'.ret /\ research' = research
              ELSE /\ last'.ret
                   /\ research'.current_project = p
                   /\ research'.progress = 0
                   /\ research'.completed_projects = research.completed_projects]_vars

\* start_project has refused a completed project while none was active
RefusedCompletedProject ==
    /\ last.op = "start_project" /\ ~last.ret
    /\ research.current_project = ""
    /\ \E k \in 1..Len(research.completed_projects) :
          research.completed_projects[k] = last.project

\* C19: research progress is at least 0 and below RESEARCH_PROJECT_COST, and
\* is 0 whenever no project is current.
ProgressInRange ==
    /\ research.progress >= 0
    /\ research.progress < 100
    /\ research.current_project = "" => research.progress = 0

\* an advance past the cost has completed the project and reset progress
AdvancedPastCost ==
    /\ last.op = "advance_project" /\ last.amount = 250 /\ last.ret
    /\ research.progress = 0 /\ research.current_project = ""
    /\ research.completed_projects # <<>>

\* C20: the completed list holds no name twice and never the current project,
\* and complete_project with no current project changes nothing.
CompletedOnce ==
    /\ [](LET done == research.completed_projects
          IN  /\ \A j, k \in 1..Len(done) : done[j] = done[k] => j = k
              /\ \A k \in 1..Len(done) : done[k] # research.current_project)
    /\ [][(last'.op = "complete_project" /\ research.current_project = "") =>
              research' = research]_vars

\* complete_project was called again after every project was completed
CompletedAgain ==
    /\ last.op = "complete_project" /\ ~last.had
    /\ Len(research.completed_projects) = NumProjects

\* C21: advance_project(amount) with no current project returns failure and
\* changes nothing; with a current project it adds amount to progress, and
\* exactly when the sum reaches RESEARCH_PROJECT_COST it appends the project
\* to the completed list, clears current_project, resets progress to 0 and
\* returns true; otherwise it returns false and the project stays current.
AdvanceProjectOutcome ==
    [][last'.op = "advance_project" =>
          LET sum == research.progress + last'.amount
          IN  IF research.current_project = ""
              THEN ~last'.ret /\ research' = research
              ELSE IF sum >= RESEARCH_PROJECT_COST
                   THEN /\ last'.ret
                        /\ research'.completed_projects =
                               Append(research.completed_projects,
                                      research.current_project)
                        /\ research'.current_project = ""
                        /\ research'.progress = 0
                   ELSE /\ ~last'.ret
                        /\ research'.current_project = research.current_project
                        /\ research'.progress = sum
                        /\ research'.completed_projects =
                               research.completed_projects]_vars

\* an advance of 10 has completed a project: its progress stood at 90 and
\* the sum met the cost exactly
AdvancedToCost ==
    /\ last.op = "advance_project" /\ last.amount = 10 /\ last.ret
    /\ research.current_project = "" /\ research.progress = 0
    /\ research.completed_projects # <<>>

\* ------------------------------------------------------------------- rooms
\* The started game with rooms as the headquarters screen adds them, driven
\* by the rooms' own methods.
FreshRooms(n) == [k \in 1..n |-> NewRoom(ROOM_TYPES[1])]

InitRoom ==
    /\ roster = StartedRoster
    /\ items = <<>>
    /\ funds = STARTING_FUNDS
    /\ reputation = STARTING_REPUTATION
    /\ mission_log = StartedLog
    /\ rooms \in {FreshRooms(n) : n \in 1..RoomsFollowed}
    /\ research = NewResearch
    /\ regions \in {rs \in StartWorlds : rs[1].fear_q = 6}
    /\ day = 1
    /\ last = [op |-> "init"]

\* the upgrade names passed to add_upgrade and remove_upgrade
UpgradeNames == {RESEARCH_PROJECTS[1], RESEARCH_PROJECTS[2]}

UpgradeCall == \E k \in 1..Len(rooms) : RoomUpgrade(k)
AddUpgradeCall ==
    \E k \in 1..Len(rooms), upgrade \in UpgradeNames : RoomAddUpgrade(k, upgrade)
RemoveUpgradeCall ==
    \E k \in 1..Len(rooms), upgrade \in UpgradeNames : RoomRemoveUpgrade(k, upgrade)

NextRoom == UpgradeCall \/ AddUpgradeCall \/ RemoveUpgradeCall

SpecRoom == InitRoom /\ [][NextRoom]_vars

\* ------------------------------------------------------------ headquarters
\* The started game late in a run, with little money left, driven by clicks
\* on the headquarters screen and on the research screen.
RoomTypes == {ROOM_TYPES[k] : k \in 1..NumRoomTypes}

InitHQ ==
    /\ roster = StartedRoster
    /\ items = <<>>
    /\ funds = MaxPurse
    /\ reputation = STARTING_REPUTATION
    /\ mission_log = StartedLog
    /\ rooms \in {<<>>, FreshRooms(MAX_ROOMS - 1)}
    /\ research = NewResearch
    /\ regions \in {rs \in StartWorlds : rs[1].fear_q = 6}
    /\ day = 1
    /\ last = [op |-> "init"]

\* the columns of the headquarters screen: the menu column, none, upgrade,
\* the shared edge of the two columns, add-upgrade
ClickColumns == {100, 160, 250, 300, 350}

\* the rows clicked: the first room, the edge it shares with the second, the
\* top edge of the new-room area (the bottom edge of the last room) and the
\* inside of the new-room area
ClickRows == {80, 110, 50 + 60 * Len(rooms), 65 + 60 * Len(rooms)}

LogBoundedHQ == Len(mission_log') <= Len(StartedLog) + MaxPurchases

\* the values random.choice can draw for a click: a second upgrade is drawn
\* only on the edge two rooms share, a room type only in the new-room area
SecondDraws(my, u1) == IF my = 110 /\ Len(rooms) >= 2 THEN Projects ELSE {u1}
TypeDraws(my) == IF my >= 50 + 60 * Len(rooms) THEN RoomTypes ELSE {ROOM_TYPES[1]}

HQClick ==
    \E mx \in ClickColumns, my \in ClickRows, u1 \in Projects :
        \E u2 \in SecondDraws(my, u1), room_type \in TypeDraws(my) :
            ClickHQ(mx, my, u1, u2, room_type) /\ LogBoundedHQ
ResearchClick == Click /\ LogBoundedHQ

NextHQ == HQClick \/ ResearchClick

SpecHQ == InitHQ /\ [][NextHQ]_vars

\* C22: Room.upgrade() succeeds exactly when level < MAX_ROOM_LEVEL, and then
\* raises level by 1, capacity by 2 and maintenance_cost by 25; at the cap it
\* returns failure and changes nothing. Level stays in 1..MAX_ROOM_LEVEL, a
\* room that started at level 1 has been upgraded level - 1 times (at most
\* MAX_ROOM_LEVEL - 1), and no room operation lowers capacity or
\* maintenance_cost.
UpgradeToCap ==
    /\ [][last'.op = "upgrade" =>
              LET k == last'.room
              IN  IF rooms[k].level < MAX_ROOM_LEVEL
                  THEN /\ last'.ret
                       /\ rooms'[k].level = rooms[k].level + 1
                       /\ rooms'[k].capacity = rooms[k].capacity + 2
                       /\ rooms'[k].maintenance_cost = rooms[k].maintenance_cost + 25
                       /\ rooms'[k].upgrades = rooms[k].upgrades
                       /\ \A j \in 1..Len(rooms) : j # k => rooms'[j] = rooms[j]
                  ELSE ~last'.ret /\ rooms' = rooms]_vars
    /\ [](\A k \in 1..Len(rooms) :
              /\ rooms[k].level \in 1..MAX_ROOM_LEVEL
              /\ rooms[k].capacity = DEFAULT_ROOM_CAPACITY + 2 * (rooms[k].level - 1)
              /\ rooms[k].maintenance_cost =
                     DEFAULT_MAINTENANCE_COST + 25 * (rooms[k].level - 1))
    /\ [][\A k \in 1..Len(rooms) :
              /\ rooms'[k].capacity >= rooms[k].capacity
              /\ rooms'[k].maintenance_cost >= rooms[k].maintenance_cost]_vars

\* upgrade() was refused on a room at the level cap
UpgradeRefusedAtCap ==
    /\ last.op = "upgrade" /\ ~last.ret
    /\ rooms[last.room].level = MAX_ROOM_LEVEL
    /\ rooms[last.room].capacity = 8
    /\ rooms[last.room].maintenance_cost = 100

\* C23: a room's upgrade list behaves as a set. add_upgrade of a name already
\* present and remove_upgrade of a name not present return failure and leave
\* the list unchanged; add_upgrade of a new name appends it, remove_upgrade of
\* a present name takes it out; the list never holds a name twice; repeating
\* an add or a remove changes nothing the second time.
UpgradesAreSet ==
    /\ [][last'.op = "add_upgrade" =>
              LET k == last'.room
                  u == last'.upgrade
                  present == \E n \in 1..Len(rooms[k].upgrades) : rooms[k].upgrades[n] = u
              IN  IF present
                  THEN ~last'.ret /\ rooms' = rooms
                  ELSE /\ last'.ret
                       /\ rooms'[k].upgrades = Append(rooms[k].upgrades, u)]_vars
    /\ [][last'.op = "remove_upgrade" =>
              LET k == last'.room
                  u == last'.upgrade
                  present == \E n \in 1..Len(rooms[k].upgrades) : rooms[k].upgrades[n] = u
              IN  IF present
                  THEN /\ last'.ret
                       /\ rooms'[k].upgrades =
                              SelectSeq(rooms[k].upgrades, LAMBDA x : x # u)
                  ELSE ~last'.ret /\ rooms' = rooms]_vars
    /\ [](\A k \in 1..Len(rooms) :
              \A m, n \in 1..Len(rooms[k].upgrades) :
                  rooms[k].upgrades[m] = rooms[k].upgrades[n] => m = n)
    /\ [][(/\ last.op \in {"add_upgrade", "remove_upgrade"}
           /\ last'.op = last.op
           /\ last'.room = last.room
           /\ last'.upgrade = last.upgrade) => rooms' = rooms]_vars

\* add_upgrade was refused for a name the room already holds, next to another
UpgradeAddedTwice ==
    /\ last.op = "add_upgrade" /\ ~last.ret
    /\ Len(rooms[last.room].upgrades) = 2
    /\ \E n \in 1..2 : rooms[last.room].upgrades[n] = last.upgrade

\* ------------------------------------------------------------------ hiring
\* The started game, or a game in which five more agents were hired, driven
\* by the roster screen's hire key and by the daily tick.
HiredRoster(n) == [i \in 1..n |-> AgentRandom(AgentNames[i], [s \in STAT_NAMES |-> MIN_STAT])]
HiredLog(n) == [i \in 1..n |-> LogEntry("hired", 0, AgentNames[i], 1)]

InitHire ==
    /\ \E n \in {2, MAX_AGENTS - 1} : roster = HiredRoster(n) /\ mission_log = HiredLog(n)
    /\ items = <<>>
    /\ funds = STARTING_FUNDS
    /\ reputation = STARTING_REPUTATION
    /\ rooms = <<>>
    /\ research = NewResearch
    /\ regions \in {rs \in StartWorlds : rs[1].fear_q = 6}
    /\ day = 1
    /\ last = [op |-> "init"]

HireKey == HireRandomAgent
HireDay == day <= MaxHireDays /\ DailyUpdate

NextHire == HireKey \/ HireDay

SpecHire == InitHire /\ [][NextHire]_vars

\* C24: the roster never exceeds MAX_AGENTS (8). hire_random_agent on a full
\* roster returns failure and leaves roster, funds and mission log unchanged;
\* otherwise it appends exactly one new available agent and returns success.
RosterCapped ==
    /\ [](Len(roster) <= 8)
    /\ [][last'.op = "hire_random_agent" =>
              IF Len(roster) >= 8
              THEN /\ ~last'.ret
                   /\ roster' = roster /\ funds' = funds /\ mission_log' = mission_log
              ELSE /\ last'.ret
                   /\ Len(roster') = Len(roster) + 1
                   /\ SubSeq(roster', 1, Len(roster)) = roster
                   /\ roster'[Len(roster')].status = "available"
                   /\ \A i \in 1..Len(roster) :
                          roster[i].name # roster'[Len(roster')].name]_vars

\* a hire was refused on a roster of eight
HireRefusedWhenFull ==
    /\ last.op = "hire_random_agent" /\ ~last.ret
    /\ Len(roster) = MAX_AGENTS

\* ----------------------------------------------------------------- careers
\* A game with its first agent hired, the agent gaining experience and being
\* assigned classes.
InitCareer ==
    /\ roster = HiredRoster(1)
    /\ items = <<>>
    /\ funds = STARTING_FUNDS
    /\ reputation = STARTING_REPUTATION
    /\ mission_log = HiredLog(1)
    /\ rooms = <<>>
    /\ research = NewResearch
    /\ regions \in {rs \in StartWorlds : rs[1].fear_q = 6}
    /\ day = 1
    /\ last = [op |-> "init"]

ExperienceAmounts == {0, 50, 100, 250}

\* the class bonuses agent a has collected
BonusSum(a) == SumOver(a.stats, STAT_NAMES) - Cardinality(STAT_NAMES) * a.level

Growing(i, amount) ==
    /\ roster[i].level < MaxLevel
    /\ roster[i].experience + amount <= MaxLevel * 100

Gain ==
    \E i \in 1..Len(roster), amount \in ExperienceAmounts :
        Growing(i, amount) /\ GainExperienceCall(i, amount)
Add ==
    \E i \in 1..Len(roster), amount \in ExperienceAmounts :
        Growing(i, amount) /\ AddExperienceCall(i, amount)
Assign ==
    \E i \in 1..Len(roster), agent_class \in AgentClass :
        BonusSum(roster[i]) < MaxBonus /\ AssignClass(i, agent_class)

NextCareer == Gain \/ Add \/ Assign

SpecCareer == InitCareer /\ [][NextCareer]_vars

\* C25: add_experience / gain_experience(amount) adds amount to experience
\* and, exactly when the new experience is at least 100 times the level
\* before the call, raises the level by 1 and each of the five stats by 1;
\* the experience is not reset or reduced, and one call raises the level by
\* at most 1.
ExperienceLevelsUp ==
    [][last'.op \in {"gain_experience", "add_experience"} =>
          LET a == roster[last'.agent]
              b == roster'[last'.agent]
              sum == a.experience + last'.amount
              up == sum >= a.level * 100
          IN  /\ b.experience = sum
              /\ b.experience >= a.experience
              /\ b.level <= a.level + 1
              /\ IF up
                 THEN /\ b.level = a.level + 1
                      /\ \A s \in {"will", "tech", "combat", "fear_resist", "charisma"} :
                             b.stats[s] = a.stats[s] + 1
                 ELSE b.level = a.level /\ b.stats = a.stats
              /\ last'.op = "add_experience" => (last'.ret <=> up)
              /\ b.agent_class = a.agent_class /\ b.status = a.status
              /\ b.stress = a.stress]_vars

\* one gain of 250 took a new agent past two thresholds and raised its level
\* to 2 only, keeping the 250
GainedPastTwoLevels ==
    /\ last.op = "gain_experience" /\ last.amount = 250
    /\ roster[last.agent].experience = 250
    /\ roster[last.agent].level = 2
    /\ \A s \in STAT_NAMES : roster[last.agent].stats[s] = 2

\* C26: assign_class on an agent whose level is below 3 returns failure and
\* leaves the agent's class and stats unchanged, for every class; a class is
\* only ever set on an agent whose level is at least 3 at the assignment, so
\* every agent holding a class has level >= 3.
ClassNeedsLevelThree ==
    /\ [][last'.op = "assign_class" /\ roster[last'.agent].level < 3 =>
              /\ ~last'.ret
              /\ roster'[last'.agent].agent_class = roster[last'.agent].agent_class
              /\ roster'[last'.agent].stats = roster[last'.agent].stats
              /\ roster' = roster]_vars
    /\ [][\A i \in 1..Len(roster) :
              roster'[i].agent_class # roster[i].agent_class => roster[i].level >= 3]_vars
    /\ [](\A i \in 1..Len(roster) : roster[i].agent_class # "" => roster[i].level >= 3)

\* a level-2 agent was refused a class that has a specialization
ClassRefusedAtLevelTwo ==
    /\ last.op = "assign_class" /\ ~last.ret
    /\ last.agent_class = "Ghost Hunter"
    /\ roster[last.agent].level = 2
    /\ roster[last.agent].agent_class = ""

\* ------------------------------------------------------ mission generation
\* The map as WorldMap() builds it, every region's mission kept with its
\* ghost, and missions generated again for any region.
GhostTypes == {GHOST_TYPES[k] : k \in 1..Len(GHOST_TYPES)}

\* WorldMap(): a drawn difficulty and ghost type for each region
GhostWorlds(n) ==
    {[r \in 1..n |->
         [name |-> LOCATIONS[r], fear_q |-> 4,
          missions |-> <<GenerateMissionWithGhost(LOCATIONS[r], draw[r][1], draw[r][2])>>]] :
        draw \in [1..n -> DIFFICULTY_VALUES \X GhostTypes]}

InitGenerate ==
    /\ roster = StartedRoster
    /\ items = <<>>
    /\ funds = STARTING_FUNDS
    /\ reputation = STARTING_REPUTATION
    /\ mission_log = StartedLog
    /\ rooms = <<>>
    /\ research = NewResearch
    /\ regions \in GhostWorlds(NumRegions)
    /\ day = 1
    /\ last = [op |-> "init"]

Generate ==
    \E r \in 1..Len(regions), difficulty \in DIFFICULTY_VALUES, ghost_type \in GhostTypes :
        RegionGenerateMission(r, difficulty, ghost_type)

NextGenerate == Generate

SpecGenerate == InitGenerate /\ [][NextGenerate]_vars

\* C27: a generated mission's reward depends on its difficulty only:
\* reward = 1000 + 100 * difficulty for every difficulty in 1..4 (1300 at
\* difficulty 3), whatever the ghost type, the location and the region.
RewardFromDifficulty ==
    \A r \in 1..Len(regions) :
        LET m == regions[r].missions[1]
        IN  /\ m.difficulty \in 1..4
            /\ m.reward = 1000 + 100 * m.difficulty
            /\ m.difficulty = 3 => m.reward = 1300

\* two regions hold difficulty-3 missions with different ghosts, one of them
\* just generated, both worth 1300
SameRewardOtherGhost ==
    /\ last.op = "generate_mission" /\ last.difficulty = 3
    /\ regions[1].missions[1].difficulty = 3 /\ regions[2].missions[1].difficulty = 3
    /\ regions[1].missions[1].ghost.ghost_type # regions[2].missions[1].ghost.ghost_type
    /\ regions[1].missions[1].reward = 1300 /\ regions[2].missions[1].reward = 1300

\* ----------------------------------------------------------- the audit log
\* The started game driven by every operation that writes to the mission log.
InitAudit ==
    /\ roster = StartedRoster
    /\ items = <<>>
    /\ funds = STARTING_FUNDS
    /\ reputation = STARTING_REPUTATION
    /\ mission_log = StartedLog
    /\ rooms = <<>>
    /\ research = NewResearch
    /\ regions \in {rs \in StartWorlds : rs[1].fear_q = 6}
    /\ day = 1
    /\ last = [op |-> "init"]

LogBoundedAudit == Len(mission_log') <= Len(StartedLog) + MaxAudit

AuditHire == HireRandomAgent /\ LogBoundedAudit
AuditSalaries == PaySalaries /\ LogBoundedAudit
AuditFunds == AddFunds(BASE_MISSION_REWARD) /\ LogBoundedAudit
AuditReputation == UpdateReputation(-7) /\ LogBoundedAudit
AuditMission == \E roll \in {0, 50} : RunMission(1, roll) /\ LogBoundedAudit
AuditDay == DailyUpdate /\ LogBoundedAudit
AuditRooms ==
    \E mx \in {250, 350}, my \in {110, 65 + 60 * Len(rooms)} :
        ClickHQ(mx, my, RESEARCH_PROJECTS[1], RESEARCH_PROJECTS[1], ROOM_TYPES[1])
            /\ LogBoundedAudit
AuditResearch == ClickProject(RESEARCH_PROJECTS[1]) /\ LogBoundedAudit

NextAudit ==
    \/ AuditHire \/ AuditSalaries \/ AuditFunds \/ AuditReputation
    \/ AuditMission \/ AuditDay \/ AuditRooms \/ AuditResearch

SpecAudit == InitAudit /\ [][NextAudit]_vars

\* C28: the mission log is append-only. For every operation (hire, pay
\* salaries, add funds, reputation update, mission resolution, daily tick,
\* room and research purchases) the log before the operation is a prefix of
\* the log after it.
LogAppendOnly ==
    [][/\ Len(mission_log') >= Len(mission_log)
       /\ SubSeq(mission_log', 1, Len(mission_log)) = mission_log]_vars

\* a daily tick has appended its five lines behind the two lines of the
\* initial hires
TickAppendedToLog ==
    /\ last.op = "daily_update"
    /\ Len(mission_log) = Len(StartedLog) + Len(Utilities) + 1
    /\ SubSeq(mission_log, 1, Len(StartedLog)) = StartedLog
    /\ mission_log[Len(StartedLog) + 1].kind = "utility"
    /\ mission_log[Len(mission_log)].kind = "salaries"

\* C29: the commands that cost funds are all-or-nothing. A click on the
\* headquarters screen debits 25 for each room it upgraded, 10 for each room
\* it added an upgrade to and 50 for a room it added, and nothing else; a
\* click on the research screen debits 100 exactly when it started a project.
\* A rejected command (insufficient funds, room at the level cap, upgrade
\* already present, MAX_ROOMS reached, project active or completed) changes
\* neither the funds nor the rooms or the research.
PurchasesAllOrNothing ==
    /\ [][last'.op = "click_hq" =>
              LET n == Len(rooms)
                  upgraded == {k \in 1..n : rooms'[k].level # rooms[k].level}
                  extended == {k \in 1..n : rooms'[k].upgrades # rooms[k].upgrades}
                  built == Len(rooms') - n
              IN  /\ built \in {0, 1}
                  /\ funds - funds' =
                         25 * Cardinality(upgraded) + 10 * Cardinality(extended)
                             + 50 * built
                  /\ \A k \in upgraded :
                         rooms[k].level < MAX_ROOM_LEVEL /\ rooms'[k].level = rooms[k].level + 1
                  /\ \A k \in extended :
                         Len(rooms'[k].upgrades) = Len(rooms[k].upgrades) + 1
                  /\ funds' = funds => rooms' = rooms
                  /\ funds < 10 => funds' = funds
                  /\ n >= MAX_ROOMS => built = 0
                  /\ funds' >= 0
                  /\ research' = research]_vars
    /\ [][last'.op = "click_project" =>
              /\ IF research' # research
                 THEN /\ funds' = funds - 100
                      /\ funds >= 100
                      /\ research.current_project = ""
                      /\ research'.current_project = last'.project
                 ELSE funds' = funds
              /\ rooms' = rooms]_vars

\* an upgrade was refused on a room at the level cap although the funds
\* covered it, and nothing was paid
UpgradeRefusedUnpaid ==
    /\ last.op = "click_hq" /\ last.mx = 250 /\ last.my = 80 /\ last.paid = 0
    /\ Len(rooms) >= 1 /\ rooms[1].level = MAX_ROOM_LEVEL
    /\ funds >= MAINTENANCE_COST_INCREASE

\* C30: mission resolution assigns exactly the first min(4, k) agents, in
\* roster order, of the k agents that are available: the mission's assigned
\* list holds their names and never more than MAX_AGENTS_PER_MISSION entries,
\* and every agent not selected keeps its status, stress and experience.
FirstAvailableAssigned ==
    [][(last'.op = "run_mission" /\ last'.resolved) =>
          LET available == SelectSeq([i \in 1..Len(roster) |-> i],
                                     LAMBDA i : roster[i].status = "available")
              n == IF Len(available) < 4 THEN Len(available) ELSE 4
              chosen == {available[j] : j \in 1..n}
          IN  /\ last'.agents = SubSeq(available, 1, n)
              /\ last'.mission.assigned_agents = [j \in 1..n |-> roster[available[j]].name]
              /\ Len(last'.mission.assigned_agents) <= MAX_AGENTS_PER_MISSION
              /\ \A i \in 1..Len(roster) :
                     i \notin chosen =>
                         /\ roster'[i].status = roster[i].status
                         /\ roster'[i].stress = roster[i].stress
                         /\ roster'[i].experience = roster[i].experience
              /\ \A i \in chosen :
                     roster'[i].stress > roster[i].stress \/ roster[i].stress = 100]_vars

\* a mission took the first four of five available agents and left the
\* fifth as it was
FifthAgentLeftOut ==
    /\ last.op = "run_mission" /\ last.resolved
    /\ last.agents = <<1, 2, 3, 4>>
    /\ Len(roster) = 5
    /\ roster[5].status = "available" /\ roster[5].stress = 0
    /\ roster[5].experience = 0
    /\ last.mission.assigned_agents =
           <<AgentNames[1], AgentNames[2], AgentNames[3], AgentNames[4]>>


\* -------------------------------------------------- the deceased off duty
\* The started agency after its first agent died of a breakdown
\* (apply_stress(100) with the draw below 0.5); the second agent is fresh.
Fallen(i) == [Fresh(i) EXCEPT !.status = "deceased", !.stress = 100]

InitDuty ==
    /\ roster = <<Fallen(1), Fresh(2)>>
    /\ items = <<>>
    /\ funds = STARTING_FUNDS
    /\ reputation = STARTING_REPUTATION
    /\ mission_log = StartedLog
    /\ rooms = <<>>
    /\ research = NewResearch
    /\ regions \in {rs \in StartWorlds : rs[1].fear_q = 4}
    /\ day = 1
    /\ last = [op |-> "init"]

\* apply_stress takes any int; at stress 100 the amount 0 already reaches the
\* breakdown again
DutyStressAmounts == {0}

DutyStress ==
    \E i \in 1..Len(roster), amount \in DutyStressAmounts, coin \in BOOLEAN :
        ApplyStress(i, amount, coin)
DutyRecover == \E i \in 1..Len(roster) : RecoverStress(i, 20)
DutyTick == DailyUpdate /\ LogBoundedRep
DutyMission == \E roll \in {0, 50} : RunMission(1, roll) /\ LogBoundedRep

NextDuty == DutyStress \/ DutyRecover \/ DutyTick \/ DutyMission

SpecDuty == InitDuty /\ [][NextDuty]_vars

\* C31: an agent that has become deceased is never again returned by
\* get_available_agents nor assigned to a mission (the agent at roster
\* position 1 is deceased from the first state on).
DeceasedOffDuty ==
    /\ ~InList(1, GetAvailableAgents)
    /\ (last.op = "run_mission" => ~InList(1, last.agents))


\* ------------------------------------------- a project under daily ticks
\* The started game with projects started on the research screen and
\* advanced by the Next Day button alone.  The log keeps one "research" line
\* per start and one "salaries" line per tick, so the ticks since the last
\* start can be read off it.
LastStart ==
    LET starts == {k \in 1..Len(mission_log) : mission_log[k].kind = "research"}
    IN  IF starts = {} THEN 0 ELSE CHOOSE k \in starts : \A j \in starts : j <= k

TicksSinceStart ==
    Cardinality({k \in (LastStart + 1)..Len(mission_log) :
                    mission_log[k].kind = "salaries"})

ProjectClick == \E project \in Projects : ClickProject(project)
ProjectDay == (research.current_project # "" \/ day <= MaxIdleDays) /\ DailyUpdate

NextProject == ProjectClick \/ ProjectDay

SpecProject == InitStarted /\ [][NextProject]_vars

StatDraws == {MIN_STAT, MIN_STAT + 1, MAX_STAT}
DrawnStats == [STAT_NAMES -> StatDraws]

Randomize == \E drawn \in DrawnStats : AgentRandomCall(AgentNames[1], drawn)
Construct == \E stats \in DrawnStats : AgentCall(AgentNames[1], stats)

NextRecruit == Randomize \/ Construct

SpecRecruit == Init /\ [][NextRecruit]_vars

\* C33: Agent.random returns an agent whose five stats are the values drawn,
\* each anywhere in [MIN_STAT, MAX_STAT], and an agent constructed with
\* explicit stats keeps them.
RandomStatsKept ==
    last.op \in {"agent_random", "agent"} =>
        /\ last.ret.stats = last.drawn
        /\ \A st \in STAT_NAMES : last.ret.stats[st] \in MIN_STAT..MAX_STAT


\* ------------------------------------------------------ an agent's outfit
\* The first agent main hires, with no money yet; add_money hands it the
\* price of a catalog entry at a time, up to OutfitMoney, the price of one
\* item of each entry. It shops, equips and asks for its stats.
OutfitMoney ==
    Catalog.ghost_gun.cost + Catalog.ecto_armor.cost + Catalog.ghost_scanner.cost

InitOutfit ==
    /\ roster = <<StartedRoster[1]>>
    /\ items = <<>>
    /\ funds = STARTING_FUNDS
    /\ reputation = STARTING_REPUTATION
    /\ mission_log = <<StartedLog[1]>>
    /\ rooms = <<>>
    /\ research = NewResearch
    /\ regions \in {rs \in StartWorlds : rs[1].fear_q = 4}
    /\ day = 1
    /\ last = [op |-> "init"]

OutfitFund == \E kind \in ItemKinds :
                  /\ roster[1].money + Catalog[kind].cost <= OutfitMoney
                  /\ AddMoneyCall(1, Catalog[kind].cost)
OutfitPurchase == \E kind \in ItemKinds : Len(items) < MaxItems /\ PurchaseItem(1, kind)
OutfitEquip == \E e \in 1..Len(items) : EquipItem(1, e)
OutfitUnequip == \E t \in EquipmentType : UnequipItem(1, t)
OutfitStats == GetEquippedStatsCall(1)

NextOutfit == OutfitFund \/ OutfitPurchase \/ OutfitEquip \/ OutfitUnequip \/ OutfitStats

SpecOutfit == InitOutfit /\ [][NextOutfit]_vars

\* what the items in the slots of a add to stat st
EquippedDelta(a, st) ==
    SumOver([t \in EquipmentType |->
                IF a.equipped[t] # NoItem /\ st \in DOMAIN Catalog[items[a.equipped[t]]].stats
                THEN Catalog[items[a.equipped[t]]].stats[st] ELSE 0],
            EquipmentType)

\* C34: get_equipped_stats returns, for every base stat name, the base value
\* plus the sum of that stat's deltas over all equipped items, and no base
\* stat is missing from the result.
EquippedStatsTotal ==
    last.op = "get_equipped_stats" =>
        /\ DOMAIN last.ret = STAT_NAMES
        /\ \A st \in STAT_NAMES :
               st \in DOMAIN last.ret =>
                   last.ret[st] = roster[last.agent].stats[st]
                                      + EquippedDelta(roster[last.agent], st)


\* ------------------------------------------------ items kept by an agent
\* how often agent a holds instance e: in its inventory list and in its slots
HeldCount(a, e) ==
    Cardinality({k \in 1..Len(a.inventory) : a.inventory[k] = e})
        + Cardinality({t \in EquipmentType : a.equipped[t] = e})

\* C35: equip_item and unequip_item leave the collection of an agent's items
\* (inventory plus slots) as it was; equipping into an occupied slot returns
\* the previous item to the inventory; equip_item of an item not in the
\* inventory fails and unequip_item of an empty slot returns none, both
\* changing neither the inventory nor a slot.
ItemsConserved ==
    [][\A i \in 1..Len(roster) :
          LET a == roster[i]
              b == roster'[i]
          IN  /\ (last'.op = "equip_item" /\ last'.agent = i) =>
                    LET e == last'.item
                        t == Catalog[items[e]].type
                    IN  /\ \A x \in 1..Len(items) : HeldCount(b, x) = HeldCount(a, x)
                        /\ IF InInventoryList(a, e)
                           THEN /\ last'.ret
                                /\ b.equipped[t] = e
                                /\ a.equipped[t] # NoItem =>
                                       InInventoryList(b, a.equipped[t])
                           ELSE ~last'.ret /\ b = a
              /\ (last'.op = "unequip_item" /\ last'.agent = i) =>
                    /\ \A x \in 1..Len(items) : HeldCount(b, x) = HeldCount(a, x)
                    /\ IF last'.item = NoItem
                       THEN ~last'.ret /\ b = a
                       ELSE /\ last'.ret
                            /\ InInventoryList(b, last'.item)
                            /\ \A t \in EquipmentType : b.equipped[t] # last'.item]_vars


\* --------------------------------------------- a career made of missions
\* The game after its first hire, the agent sent on mission after mission.  A
\* region's next mission has the difficulty of the last one, so the maps
\* followed are one region of difficulty 1 or 2, and two regions of
\* difficulties 3 and 4 (gains of 30 and 40 in any order).
VeteranWorlds ==
    {rs \in Worlds(1) : rs[1].fear_q = 4 /\ rs[1].missions[1].difficulty \in {1, 2}}
        \cup {rs \in Worlds(2) :
                 /\ rs[1].fear_q = 4 /\ rs[2].fear_q = 4
                 /\ rs[1].missions[1].difficulty = 3
                 /\ rs[2].missions[1].difficulty = 4}

InitVeteran ==
    /\ roster = HiredRoster(1)
    /\ items = <<>>
    /\ funds = STARTING_FUNDS
    /\ reputation = STARTING_REPUTATION
    /\ mission_log = HiredLog(1)
    /\ rooms = <<>>
    /\ research = NewResearch
    /\ regions \in VeteranWorlds
    /\ day = 1
    /\ last = [op |-> "init"]

\* the missions failed so far
FailuresLogged ==
    Cardinality({k \in 1..Len(mission_log) : mission_log[k].kind = "FAILURE"})

\* a failed mission gives no experience: the model follows one per career
VeteranSuccess ==
    \E r \in 1..Len(regions) :
        roster[1].level < VeteranLevel /\ RunMission(r, 0)
VeteranFailure ==
    \E r \in 1..Len(regions) :
        roster[1].level < VeteranLevel /\ FailuresLogged = 0 /\ RunMission(r, 95)

NextVeteran == VeteranSuccess \/ VeteranFailure

SpecVeteran == InitVeteran /\ [][NextVeteran]_vars

\* C36: with experience gained by mission successes only (10 x difficulty,
\* difficulty 1..4), (level - 1) x 100 <= experience < level x 100 in every
\* state, so level = 1 + experience div 100, and each stat of an agent
\* without a class is its initial value plus level - 1.
ExperienceMatchesLevel ==
    \A i \in 1..Len(roster) :
        LET a == roster[i]
        IN  /\ (a.level - 1) * 100 <= a.experience
            /\ a.experience < a.level * 100
            /\ a.level = 1 + (a.experience \div 100)
            /\ a.agent_class = "" =>
                   \A st \in STAT_NAMES :
                       a.stats[st] = NewAgent(a.name).stats[st] + a.level - 1

\* a success worth 40 took the agent from 190 to 230 and to level 3
LevelThreeAtTwoThirty ==
    /\ last.op = "run_mission" /\ last.resolved /\ last.success
    /\ roster[1].experience = 230 /\ roster[1].level = 3
    /\ \A st \in STAT_NAMES : roster[1].stats[st] = 3


\* ----------------------------------------------------- funds running low
\* The started game late in a run, with little money left and every command
\* that touches the funds: hiring, the headquarters and research screens,
\* missions and the daily tick.
InitPurse ==
    /\ roster = StartedRoster
    /\ items = <<>>
    /\ funds = MaxPurse
    /\ reputation = STARTING_REPUTATION
    /\ mission_log = StartedLog
    /\ rooms \in {<<>>, FreshRooms(1)}
    /\ research = NewResearch
    /\ regions \in {rs \in StartWorlds : rs[1].fear_q = 4}
    /\ day = 1
    /\ last = [op |-> "init"]

LogBoundedPurse == Len(mission_log') <= Len(StartedLog) + MaxLedger

PurseHire == HireRandomAgent /\ LogBoundedPurse
\* clicks inside the upgrade and add-upgrade columns, on the first room and
\* inside the new-room area
PurseHQ ==
    \E mx \in {250, 350}, my \in {80, 65 + 60 * Len(rooms)} :
        ClickHQ(mx, my, RESEARCH_PROJECTS[1], RESEARCH_PROJECTS[1], ROOM_TYPES[1])
            /\ LogBoundedPurse
\* clicks on the menu while the headquarters screen is shown: the "Roster"
\* button and the "Next Day" button
PurseMenu ==
    \E my \in {80, 170} :
        ClickHQ(100, my, RESEARCH_PROJECTS[1], RESEARCH_PROJECTS[1], ROOM_TYPES[1])
            /\ LogBoundedPurse
PurseResearch == Click /\ LogBoundedPurse
PurseMission == \E roll \in {0, 95} : RunMission(1, roll) /\ LogBoundedPurse
PurseDay == DailyUpdate /\ LogBoundedPurse

NextPurse ==
    PurseHire \/ PurseHQ \/ PurseMenu \/ PurseResearch \/ PurseMission \/ PurseDay

SpecPurse == InitPurse /\ [][NextPurse]_vars

\* C37: only the daily tick takes funds from a value >= 0 to a value < 0:
\* hiring, adding a room, upgrading a room, adding a room upgrade, starting
\* research and resolving a mission never do.
OnlyTickOverdraws ==
    /\ [][(funds >= 0 /\ funds' < 0) => last'.op = "daily_update"]_vars
    /\ [][last'.op \in {"hire_random_agent", "click_hq", "click_project", "run_mission"} =>
              /\ funds >= 0 => funds' >= 0
              /\ funds' >= funds \/ funds' >= 0]_vars

\* a research click was refused for lack of funds: nothing was started and
\* the funds, short of the cost, stayed where they were
ResearchRefusedWhenShort ==
    /\ last.op = "click_project"
    /\ funds >= 0 /\ funds < RESEARCH_PROJECT_COST
    /\ research = NewResearch


\* ------------------------------------------------- a class and its bonus
\* the bonus the class held by agent a gives to stat st
HeldBonus(a, st) ==
    IF a.agent_class = "" THEN 0
    ELSE IF st \in DOMAIN StatBonus(a.agent_class) THEN StatBonus(a.agent_class)[st]
         ELSE 0

\* C38: a class's stat bonus is applied at most once: after any sequence of
\* assign_class calls every stat is its level-derived value plus the bonus of
\* the one class the agent holds.
ClassBonusOnce ==
    \A i \in 1..Len(roster) :
        \A st \in STAT_NAMES :
            roster[i].stats[st] =
                NewAgent(roster[i].name).stats[st] + (roster[i].level - 1)
                    + HeldBonus(roster[i], st)


\* -------------------------------------------- what the daily tick leaves
\* An agency some days into a game with two agents of any kind: fresh, worn,
\* resting or deceased.
IdleShapes == CrewShapes \cup {"fallen"}

Idled(shape, i) == IF shape = "fallen" THEN Fallen(i) ELSE Crewed(shape, i)

IdleCrews == {[i \in 1..2 |-> Idled(shapes[i], i)] : shapes \in [1..2 -> IdleShapes]}

InitIdle ==
    /\ roster \in IdleCrews
    /\ items = <<>>
    /\ funds = STARTING_FUNDS
    /\ reputation = STARTING_REPUTATION
    /\ mission_log = StartedLog
    /\ rooms \in RoomSets
    /\ research \in {NewResearch, ActiveResearch}
    /\ regions \in {rs \in StartWorlds : rs[1].fear_q = 4}
    /\ day = 1
    /\ last = [op |-> "init"]

IdleDay == day <= MaxTicks /\ DailyUpdate

NextIdle == IdleDay

SpecIdle == InitIdle /\ [][NextIdle]_vars

\* C39: a daily tick changes an agent only if it is resting or injured, and
\* then only its stress and status: available and deceased agents keep their
\* stress and status, every agent keeps its level, experience and stats, and
\* the roster's members, the reputation, the rooms and every region's mission
\* are the same after the tick as before.
TickLeavesTheRest ==
    [][Ticked =>
          /\ Len(roster') = Len(roster)
          /\ \A i \in 1..Len(roster) :
                 /\ roster[i].status \notin {"resting", "injured"} =>
                        roster'[i] = roster[i]
                 /\ roster[i].status \in {"available", "deceased"} =>
                        /\ roster'[i].stress = roster[i].stress
                        /\ roster'[i].status = roster[i].status
                 /\ roster'[i].name = roster[i].name
                 /\ roster'[i].level = roster[i].level
                 /\ roster'[i].experience = roster[i].experience
                 /\ roster'[i].stats = roster[i].stats
                 /\ [roster'[i] EXCEPT !.stress = 0, !.status = ""]
                        = [roster[i] EXCEPT !.stress = 0, !.status = ""]
          /\ reputation' = reputation
          /\ rooms' = rooms
          /\ regions' = regions]_vars

\* a tick has passed over a deceased agent at stress 100 and lowered the
\* stress of the resting agent beside it from 70 to 50
TickPassedTheDeceased ==
    /\ last.op = "daily_update" /\ day = 2
    /\ roster[1].status = "deceased" /\ roster[1].stress = 100
    /\ roster[2].status = "resting" /\ roster[2].stress = 50


\* ------------------------------------------------ a mission with no team
\* An agency with nobody hired yet, or with one or two agents that are fresh,
\* resting or deceased, and a click on the region of the map.
StrandedShapes == {"fresh", "weary", "fallen"}

StrandedCrews ==
    {<<>>} \cup UNION {{[i \in 1..k |-> Idled(shapes[i], i)] :
                           shapes \in [1..k -> StrandedShapes]} : k \in 1..2}

InitStranded ==
    /\ roster \in StrandedCrews
    /\ items = <<>>
    /\ funds = STARTING_FUNDS
    /\ reputation = STARTING_REPUTATION
    /\ mission_log = HiredLog(Len(roster))
    /\ rooms = <<>>
    /\ research = NewResearch
    /\ regions \in Worlds(1)
    /\ day = 1
    /\ last = [op |-> "init"]

StrandedMission ==
    \E roll \in {0, 95} :
        /\ RunMission(1, roll)
        /\ Len(mission_log') <= Len(roster) + MaxStranded

NextStranded == StrandedMission

SpecStranded == InitStranded /\ [][NextStranded]_vars

\* C40: run_mission with no available agent appends one log line and changes
\* nothing else: funds, reputation, every agent, the mission's status and
\* assigned list and the region's mission stay as they were.
NoTeamNoMission ==
    [][(last'.op = "run_mission"
           /\ \A i \in 1..Len(roster) : roster[i].status # "available") =>
          LET r == last'.region
              n == Len(mission_log)
          IN  /\ ~last'.resolved
              /\ funds' = funds
              /\ reputation' = reputation
              /\ roster' = roster
              /\ regions'[r].missions = regions[r].missions
              /\ regions'[r].missions[1].status = "available"
              /\ regions'[r].missions[1].assigned_agents = <<>>
              /\ regions' = regions
              /\ Len(mission_log') = n + 1
              /\ SubSeq(mission_log', 1, n) = mission_log
              /\ mission_log'[n + 1].kind = "no_agents"
              /\ mission_log'[n + 1].subject = regions[r].name
              /\ mission_log'[n + 1].day = day
              /\ UNCHANGED <<rooms, research, day, items>>]_vars

\* a click found one agent deceased and the other resting, and only logged
\* that nobody was available
NobodyToSend ==
    /\ last.op = "run_mission" /\ ~last.resolved
    /\ Len(roster) = 2
    /\ roster[1].status = "deceased" /\ roster[2].status = "resting"
    /\ mission_log[Len(mission_log)].kind = "no_agents"
    /\ funds = STARTING_FUNDS /\ reputation = STARTING_REPUTATION

====
